---------------------------- MODULE Spec2Model ----------------------------
(***************************************************************************)
(* Model of the VisualEditor transaction core, ve.dm.Transaction:          *)
(* operations, builder primitives, constructors, reversal and rebase.      *)
(*                                                                         *)
(* Conventions.  Offsets are the zero-based offsets of the source; the     *)
(* item at offset i of a data sequence s is s[i + 1].  A JavaScript value  *)
(* that may be undefined is a sequence of length at most one: << >> is     *)
(* undefined and <<v>> is v.  An optional field of an operation that is    *)
(* undefined is absent from the record.  A metadata cell is the sequence   *)
(* of its elements, the empty sequence standing for an undefined cell.     *)
(* Attributes are reduced to one key, "level", whose value 0 stands for    *)
(* undefined.  A builder value is [ops, err]: the operation list and the   *)
(* message of the error raised ("" when none was).                         *)
(***************************************************************************)
EXTENDS Integers, Sequences, FiniteSets, TLC

VARIABLES
    doc,        \* the document in the pre-transaction state
    txA,        \* transaction A: [operations, applied]
    txB,        \* transaction B, parallel to A on the same start state
    srcA,       \* what produced txA ("" when nothing did yet)
    srcB,       \* what produced txB
    raised,     \* message of the error the last call raised ("" when none)
    rebased,    \* result of the last rebaseTransactions / rebasedOnto call
    onto,       \* results of txA.rebasedOnto( txB, .. ) and txB.rebasedOnto( txA, .. )
    rev,        \* result of the last reversed() call(s) on txA
    btx,        \* the transaction a sequence of builder calls is growing
    calls,      \* number of builder calls made on btx
    args,       \* arguments of the constructor call of a single-transaction run
    out,        \* the last call that returns a value without changing txA, and its result
    store,      \* the annotations the document's store holds
    mode        \* which part of the interface the run exercises

vars == <<doc, txA, txB, srcA, srcB, raised, rebased, onto, rev, btx, calls, args, out, store, mode>>

----------------------------------------------------------------------------
(* Linear data items *)

Undefined == << >>

Some(v) == <<v>>

Elem(t) == [type |-> t, ch |-> "", level |-> 0, ann |-> {}]

ElemL(t, l) == [type |-> t, ch |-> "", level |-> l, ann |-> {}]

Char(c) == [type |-> "", ch |-> c, level |-> 0, ann |-> {}]

CharA(c, a) == [type |-> "", ch |-> c, level |-> 0, ann |-> a]

OpenTypes == {"paragraph", "heading", "section", "list", "listItem",
              "inlineImage", "internalList", "internalItem", "reference"}

Closing(t) == "/" \o t

CloseTypes == {Closing(t) : t \in OpenTypes}

OpenOf(ct) == CHOOSE t \in OpenTypes : Closing(t) = ct

isElement(item) == item.type # ""

isClose(item) == item.type \in CloseTypes

isOpen(item) == isElement(item) /\ ~isClose(item)

BaseType(item) == IF isClose(item) THEN OpenOf(item.type) ELSE item.type

Holes(n) == [i \in 1..n |-> << >>]

Slice(s, from, to) == SubSeq(s, from + 1, IF to < Len(s) THEN to ELSE Len(s))

Splice(s, at, removeLength, ins) ==
    SubSeq(s, 1, at) \o ins \o SubSeq(s, at + removeLength + 1, Len(s))

Min(a, b) == IF a < b THEN a ELSE b

Max(a, b) == IF a > b THEN a ELSE b

----------------------------------------------------------------------------
(* Collaborators: node factory, document accessors, metadata merge *)

isNodeContent(t) == t \in {"inlineImage"}

isNodeDeletable(t) == t \notin {"section"}

canContainContent(t) == t \in {"paragraph", "heading"}

getLength(d) == Len(d.data)

getData(d, from, to) == Slice(d.data, from, to)

getMetadata(d, from, to) == Slice(d.meta, from, to)

AllUndefined(cells) == \A i \in 1..Len(cells) : cells[i] = << >>

RECURSIVE ConcatCells(_)
ConcatCells(cells) ==
    IF Len(cells) = 0 THEN << >> ELSE Head(cells) \o ConcatCells(Tail(cells))

MetaMerge(cells) == <<ConcatCells(cells)>>

----------------------------------------------------------------------------
(* Builder primitives *)

NewBuilder == [ops |-> << >>, err |-> "", applied |-> FALSE]

Raise(b, msg) == [b EXCEPT !.err = msg]

Push(b, op) == [b EXCEPT !.ops = Append(@, op)]

Pop(ops) == SubSeq(ops, 1, Len(ops) - 1)

\* pushRetain without the zero-length early return
pushRetainAnyLength(b, length) ==
    IF b.err # "" THEN b
    ELSE IF length < 0 THEN Raise(b, "Invalid retain length, cannot retain backwards")
    ELSE IF Len(b.ops) > 0 /\ b.ops[Len(b.ops)].type = "retain"
         THEN [b EXCEPT !.ops[Len(b.ops)] =
                  [type |-> "retain", length |-> @.length + length]]
         ELSE Push(b, [type |-> "retain", length |-> length])

pushRetain(b, length) ==
    IF b.err # "" THEN b
    ELSE IF length < 0 THEN Raise(b, "Invalid retain length, cannot retain backwards")
    ELSE IF length = 0 THEN b
    ELSE IF Len(b.ops) > 0 /\ b.ops[Len(b.ops)].type = "retain"
         THEN [b EXCEPT !.ops[Len(b.ops)] =
                  [type |-> "retain", length |-> @.length + length]]
         ELSE Push(b, [type |-> "retain", length |-> length])

\* pushRetainMetadata without the check of the sign of the length
pushRetainMetadataUnchecked(b, length) ==
    IF b.err # "" THEN b
    ELSE IF length = 0 THEN b
    ELSE IF Len(b.ops) > 0 /\ b.ops[Len(b.ops)].type = "retainMetadata"
         THEN [b EXCEPT !.ops[Len(b.ops)] =
                  [type |-> "retainMetadata", length |-> @.length + length]]
         ELSE Push(b, [type |-> "retainMetadata", length |-> length])

pushRetainMetadata(b, length) ==
    IF b.err # "" THEN b
    ELSE IF length < 0 THEN Raise(b, "Invalid retain length, cannot retain backwards")
    ELSE IF length = 0 THEN b
    ELSE IF Len(b.ops) > 0 /\ b.ops[Len(b.ops)].type = "retainMetadata"
         THEN [b EXCEPT !.ops[Len(b.ops)] =
                  [type |-> "retainMetadata", length |-> @.length + length]]
         ELSE Push(b, [type |-> "retainMetadata", length |-> length])

pushReplaceMetadata(b, remove, insert) ==
    IF b.err # "" THEN b
    ELSE IF Len(remove) = 0 /\ Len(insert) = 0 THEN b
    ELSE Push(b, [type |-> "replaceMetadata", remove |-> remove, insert |-> insert])

ReplaceOp(remove, insert, removeMetadata, insertMetadata, insertedDataOffset, insertedDataLength) ==
    LET base == [type |-> "replace", remove |-> remove, insert |-> insert]
        withMeta == IF insertMetadata # Undefined
                    THEN [removeMetadata |-> removeMetadata,
                          insertMetadata |-> insertMetadata[1]]
                    ELSE [x \in {} |-> 0]
        withInserted == IF insertedDataOffset # Undefined /\ insertedDataLength # Undefined
                        THEN [insertedDataOffset |-> insertedDataOffset[1],
                              insertedDataLength |-> insertedDataLength[1]]
                        ELSE [x \in {} |-> 0]
    IN  base @@ withMeta @@ withInserted

pushReplaceInternal(b, remove, insert, removeMetadata, insertMetadata, insertedDataOffset, insertedDataLength) ==
    IF Len(remove) = 0 /\ Len(insert) = 0 THEN b
    ELSE Push(b, ReplaceOp(remove, insert, removeMetadata, insertMetadata,
                           insertedDataOffset, insertedDataLength))

hasField(op, f) == f \in DOMAIN op

\* a builder that drops removed metadata instead of collapsing it
dropMetadata(remove, removeMetadata, insert, insertMetadataArg) ==
    [remove |-> remove,
     removeMetadata |-> removeMetadata,
     extraMetadata |-> Undefined,
     insertMetadata |-> insertMetadataArg,
     isInsertEmpty |-> insertMetadataArg # Undefined /\ AllUndefined(insertMetadataArg[1])]

collapseMetadata(remove, removeMetadata, insert, insertMetadataArg) ==
    \* what is removed, and the metadata to insert once non-empty removed
    \* metadata has been collapsed into it
    LET isRemoveEmpty == AllUndefined(removeMetadata)
        collapse == insertMetadataArg = Undefined /\ ~isRemoveEmpty
        merged == MetaMerge(removeMetadata)
        isInsertEmpty0 == insertMetadataArg # Undefined /\ AllUndefined(insertMetadataArg[1])
        insertMetadata ==
            IF collapse
            THEN IF Len(insert) = 0 THEN Some(<< >>)
                 ELSE Some(merged \o Holes(Len(insert) - 1))
            ELSE IF isInsertEmpty0 /\ isRemoveEmpty THEN Undefined
            ELSE insertMetadataArg
    IN  [remove |-> remove,
         removeMetadata |-> removeMetadata,
         extraMetadata |-> IF collapse /\ Len(insert) = 0 THEN Some(merged[1]) ELSE Undefined,
         insertMetadata |-> insertMetadata,
         isInsertEmpty |-> IF collapse THEN AllUndefined(insertMetadata[1])
                           ELSE isInsertEmpty0]

lastOps(ops) ==
    \* the op list and its last op, once a trailing replaceMetadata that
    \* follows a pure removal has been popped into mergedMetadata
    LET end == Len(ops)
        lastOp0 == IF end >= 1 THEN Some(ops[end]) ELSE Undefined
        penultOp == IF end >= 2 THEN Some(ops[end - 1]) ELSE Undefined
        fall == /\ lastOp0 # Undefined
                /\ lastOp0[1].type = "replaceMetadata"
                /\ Len(lastOp0[1].insert) > 0
                /\ Len(lastOp0[1].remove) = 0
                /\ penultOp # Undefined
                /\ penultOp[1].type = "replace"
                /\ Len(penultOp[1].insert) = 0
    IN  [mergedMetadata |-> IF fall THEN <<lastOp0[1].insert>> ELSE << >>,
         ops |-> IF fall THEN Pop(ops) ELSE ops,
         lastOp |-> IF fall THEN penultOp ELSE lastOp0]

rejectsNothing(lastOp) ==
    \* a builder without the check that follows the two merges
    FALSE

rejectsAfter(lastOp) ==
    \* a replace that could not be merged must not follow a replaceMetadata
    lastOp # Undefined /\ lastOp[1].type = "replaceMetadata"

\* a builder that never merges a replace into the one before it
pushSeparately(b, d, offset, removeLength, insert, insertedDataOffset, insertedDataLength, m, t) ==
    pushReplaceInternal(b, m.remove, insert, m.removeMetadata, m.insertMetadata,
        insertedDataOffset, insertedDataLength)

RECURSIVE pushReplace(_, _, _, _, _, _, _, _)

mergeOrPush(b, d, offset, removeLength, insert, insertedDataOffset, insertedDataLength, m, t) ==
    \* m is collapseMetadata( .. ) of the call, t is lastOps( .. ) of the list
    LET isReplace == t.lastOp # Undefined /\ t.lastOp[1].type = "replace"
        merge1 == /\ isReplace
                  /\ ~(Len(t.lastOp[1].insert) > 0 /\ m.insertMetadata # Undefined)
                  /\ ~hasField(t.lastOp[1], "insertedDataOffset")
                  /\ m.extraMetadata = Undefined
                  /\ ~(/\ Len(t.mergedMetadata) > 0
                       /\ m.insertMetadata # Undefined
                       /\ ~m.isInsertEmpty)
        merge2 == /\ isReplace
                  /\ Len(t.lastOp[1].insert) = 0
                  /\ Len(insert) = 0
                  /\ (~hasField(t.lastOp[1], "removeMetadata") \/ Len(t.mergedMetadata) > 0)
                  /\ (m.insertMetadata = Undefined \/ m.extraMetadata # Undefined)
        padLength == Len(insert) - Len(t.mergedMetadata)
    IN  IF merge1
        THEN IF (m.insertMetadata = Undefined \/ m.isInsertEmpty) /\ padLength < 0
             THEN Raise([b EXCEPT !.ops = Pop(t.ops)], "Invalid array length")
             ELSE pushReplace([b EXCEPT !.ops = Pop(t.ops)], d,
                      offset - Len(t.lastOp[1].remove),
                      Len(t.lastOp[1].remove) + removeLength,
                      t.lastOp[1].insert \o insert,
                      Some((IF hasField(t.lastOp[1], "insertMetadata")
                            THEN t.lastOp[1].insertMetadata
                            ELSE Holes(Len(t.lastOp[1].insert)))
                           \o t.mergedMetadata
                           \o (IF m.insertMetadata = Undefined \/ m.isInsertEmpty
                               THEN Holes(padLength)
                               ELSE m.insertMetadata[1])),
                      insertedDataOffset, insertedDataLength)
        ELSE IF merge2
        THEN pushReplace([b EXCEPT !.ops = Pop(t.ops)], d,
                 offset - Len(t.lastOp[1].remove),
                 Len(t.lastOp[1].remove) + removeLength,
                 << >>, Undefined, Undefined, Undefined)
        ELSE IF rejectsAfter(t.lastOp)
        THEN Raise([b EXCEPT !.ops = t.ops], "replace after replaceMetadata not allowed")
        ELSE IF m.extraMetadata # Undefined
        THEN pushReplaceMetadata(
                 pushReplaceInternal([b EXCEPT !.ops = t.ops], m.remove, insert,
                     m.removeMetadata, m.insertMetadata, insertedDataOffset,
                     insertedDataLength),
                 << >>, m.extraMetadata[1])
        ELSE pushReplaceInternal([b EXCEPT !.ops = t.ops], m.remove, insert,
                 m.removeMetadata, m.insertMetadata, insertedDataOffset,
                 insertedDataLength)

pushReplace(b, d, offset, removeLength, insert, insertMetadataArg, insertedDataOffset, insertedDataLength) ==
    IF b.err # "" THEN b
    ELSE IF removeLength = 0 /\ Len(insert) = 0 THEN b
    ELSE mergeOrPush(b, d, offset, removeLength, insert, insertedDataOffset,
             insertedDataLength,
             collapseMetadata(getData(d, offset, offset + removeLength),
                              getMetadata(d, offset, offset + removeLength),
                              insert, insertMetadataArg),
             lastOps(b.ops))

pushReplaceElementAttribute(b, key, from, to) ==
    IF b.err # "" THEN b
    ELSE Push(b, [type |-> "attribute", key |-> key, from |-> from, to |-> to])

\* a series of changes pushed without comparing old and new values
pushAttributeChangesUnfiltered(b, changes, oldLevel) ==
    IF changes = Undefined THEN b
    ELSE pushReplaceElementAttribute(b, "level", oldLevel, changes[1])

pushAttributeChanges(b, changes, oldLevel) ==
    IF changes = Undefined \/ oldLevel = changes[1] THEN b
    ELSE pushReplaceElementAttribute(b, "level", oldLevel, changes[1])

pushStartAnnotating(b, method, index) ==
    IF b.err # "" THEN b
    ELSE Push(b, [type |-> "annotate", method |-> method, bias |-> "start", index |-> index])

\* a stop pushed with the bias of a start
pushStopAsStart(b, method, index) ==
    IF b.err # "" THEN b
    ELSE Push(b, [type |-> "annotate", method |-> method, bias |-> "start", index |-> index])

pushStopAnnotating(b, method, index) ==
    IF b.err # "" THEN b
    ELSE Push(b, [type |-> "annotate", method |-> method, bias |-> "stop", index |-> index])

\* pushFinalRetain that retains the final metadata only
pushFinalRetainMetadataOnly(b, d, offset, metaOffsetArg) ==
    IF Len(d.meta[getLength(d) + 1]) > 0
    THEN pushRetainMetadata(b, Len(d.meta[getLength(d) + 1])
                               - (IF offset < getLength(d) THEN 0 ELSE metaOffsetArg))
    ELSE b

pushFinalRetain(b, d, offset, metaOffsetArg) ==
    LET finalMetadata == d.meta[getLength(d) + 1]
        b1 == IF offset < getLength(d) THEN pushRetain(b, getLength(d) - offset) ELSE b
        metaOffset == IF offset < getLength(d) THEN 0 ELSE metaOffsetArg
    IN  IF Len(finalMetadata) > 0
        THEN pushRetainMetadata(b1, Len(finalMetadata) - metaOffset)
        ELSE b1

----------------------------------------------------------------------------
(* The executor that applies a transaction to a document, and tree balance *)

annotateItem(item, set, clear) ==
    [item EXCEPT !.ann = (@ \cup set) \ clear]

canAnnotateItem(item, set, clear) ==
    /\ item.ann \cap set = {}
    /\ clear \subseteq item.ann

RECURSIVE applyAnnotations(_, _, _, _, _)
applyAnnotations(st, from, to, set, clear) ==
    IF from >= to \/ (set = {} /\ clear = {}) \/ from >= Len(st.data) THEN st
    ELSE LET item == st.data[from + 1]
         IN  IF isElement(item) /\ ~isNodeContent(BaseType(item))
             THEN [st EXCEPT !.err = "cannot annotate a non-content element"]
             ELSE IF isElement(item) /\ isClose(item)
             THEN applyAnnotations(st, from + 1, to, set, clear)
             ELSE IF ~canAnnotateItem(item, set, clear)
             THEN [st EXCEPT !.err = "annotation already set or not set"]
             ELSE applyAnnotations(
                      [st EXCEPT !.data[from + 1] = annotateItem(item, set, clear)],
                      from + 1, to, set, clear)

processOp(st, op) ==
    LET at == st.cursor + st.adjustment
    IN  CASE op.type = "retain" ->
                [applyAnnotations(st, at, at + op.length, st.set, st.clear)
                    EXCEPT !.cursor = @ + op.length, !.metadataCursor = 0]
          [] op.type = "retainMetadata" ->
                [st EXCEPT !.metadataCursor = @ + op.length]
          [] op.type = "annotate" ->
                IF op.method = "set"
                THEN [st EXCEPT !.set = IF op.bias = "start" THEN @ \cup {op.index}
                                        ELSE @ \ {op.index}]
                ELSE [st EXCEPT !.clear = IF op.bias = "start" THEN @ \cup {op.index}
                                          ELSE @ \ {op.index}]
          [] op.type = "attribute" ->
                IF at >= Len(st.data) \/ ~isElement(st.data[at + 1])
                THEN [st EXCEPT !.err = "cannot set attributes on non-element data"]
                ELSE [st EXCEPT !.data[at + 1].level = op.to]
          [] op.type = "replace" ->
                IF at + Len(op.remove) > Len(st.data)
                THEN [st EXCEPT !.err = "replace past the end of the data"]
                ELSE [st EXCEPT
                        !.data = Splice(@, at, Len(op.remove), op.insert),
                        !.meta = Splice(@, at, Len(op.remove),
                                        IF hasField(op, "insertMetadata")
                                        THEN op.insertMetadata
                                        ELSE Holes(Len(op.insert))),
                        !.cursor = @ + Len(op.remove),
                        !.adjustment = @ + Len(op.insert) - Len(op.remove),
                        !.metadataCursor = 0]
          [] op.type = "replaceMetadata" ->
                IF at + 1 > Len(st.meta)
                   \/ st.metadataCursor + Len(op.remove) > Len(st.meta[at + 1])
                THEN [st EXCEPT !.err = "replaceMetadata past the end of the cell"]
                ELSE [st EXCEPT
                        !.meta[at + 1] = Splice(@, st.metadataCursor, Len(op.remove), op.insert),
                        !.metadataCursor = @ + Len(op.insert)]

RECURSIVE processOps(_, _, _)
processOps(st, ops, i) ==
    IF i > Len(ops) \/ st.err # "" THEN st
    ELSE processOps(processOp(st, ops[i]), ops, i + 1)

Apply(d, ops) ==
    LET st == processOps([data |-> d.data, meta |-> d.meta, cursor |-> 0,
                          adjustment |-> 0, metadataCursor |-> 0,
                          set |-> {}, clear |-> {}, err |-> ""], ops, 1)
    IN  [data |-> st.data, meta |-> st.meta, err |-> st.err]

RECURSIVE balancedFrom(_, _, _)
balancedFrom(data, i, stack) ==
    IF i > Len(data) THEN stack = << >>
    ELSE IF isOpen(data[i]) THEN balancedFrom(data, i + 1, <<data[i].type>> \o stack)
    ELSE IF isClose(data[i])
         THEN /\ stack # << >>
              /\ Closing(Head(stack)) = data[i].type
              /\ balancedFrom(data, i + 1, Tail(stack))
    ELSE balancedFrom(data, i + 1, stack)

Balanced(data) == balancedFrom(data, 1, << >>)

----------------------------------------------------------------------------
(* The document tree read off the linear data: nodes, selectNodes,         *)
(* canBeMergedWith and fixupInsertion of the Document collaborator         *)

RECURSIVE matchClose(_, _, _)
matchClose(data, i, depth) ==
    \* offset just past the closing marker matching the opening whose scan
    \* has reached offset i at the given depth
    IF i >= Len(data) THEN Len(data)
    ELSE IF isOpen(data[i + 1]) THEN matchClose(data, i + 1, depth + 1)
    ELSE IF isClose(data[i + 1])
         THEN IF depth = 1 THEN i + 1 ELSE matchClose(data, i + 1, depth - 1)
    ELSE matchClose(data, i + 1, depth)

ElementNodes(data) ==
    { [type |-> data[i + 1].type, text |-> FALSE, level |-> data[i + 1].level,
       outerStart |-> i, outerEnd |-> matchClose(data, i + 1, 1),
       start |-> i + 1, end |-> matchClose(data, i + 1, 1) - 1]
      : i \in {j \in 0..(Len(data) - 1) : isOpen(data[j + 1])} }

isTextRun(data, s, e) ==
    /\ s < e
    /\ \A k \in s..(e - 1) : ~isElement(data[k + 1])
    /\ (s = 0 \/ isElement(data[s]))
    /\ (e = Len(data) \/ isElement(data[e + 1]))

TextNodes(data) ==
    { [type |-> "text", text |-> TRUE, level |-> 0,
       outerStart |-> r[1], outerEnd |-> r[2], start |-> r[1], end |-> r[2]]
      : r \in {q \in (0..Len(data)) \X (0..Len(data)) : isTextRun(data, q[1], q[2])} }

Nodes(data) == ElementNodes(data) \cup TextNodes(data)

DocumentNode(data) ==
    [type |-> "document", text |-> FALSE, level |-> 0,
     outerStart |-> 0, outerEnd |-> Len(data), start |-> 0, end |-> Len(data)]

Encloses(e, n) ==
    /\ ~e.text
    /\ e # n
    /\ e.start <= n.outerStart
    /\ n.outerEnd <= e.end

Tree(data) == [elements |-> ElementNodes(data), root |-> DocumentNode(data)]

getParent(tree, n) ==
    LET up == {e \in tree.elements : Encloses(e, n)}
    IN  IF up = {} THEN tree.root
        ELSE CHOOSE e \in up : \A f \in up : f.outerStart <= e.outerStart

nodeIsContent(n) == n.text \/ isNodeContent(n.type)

nodeCanContainContent(n) == ~n.text /\ canContainContent(n.type)

RECURSIVE sameAncestry(_, _, _)
sameAncestry(tree, n1, n2) ==
    \* walk up from both nodes until they meet; fail on a type mismatch
    IF n1 = n2 THEN TRUE
    ELSE IF n1.type = "document" \/ n2.type = "document" \/ n1.type # n2.type THEN FALSE
    ELSE sameAncestry(tree, getParent(tree, n1), getParent(tree, n2))

mergeAnchor(tree, n, other) ==
    \* a content node stands for its parent when the other node can contain content
    IF nodeCanContainContent(other) /\ nodeIsContent(n) THEN getParent(tree, n) ELSE n

canBeMergedWith(data, n1, n2) ==
    sameAncestry(Tree(data), mergeAnchor(Tree(data), n1, n2), mergeAnchor(Tree(data), n2, n1))

Deepest(ns) == CHOOSE n \in ns : \A m \in ns : m.outerStart <= n.outerStart

hasChildren(all, n) == \E c \in all : Encloses(n, c)

RECURSIVE sortNodes(_)
sortNodes(ns) ==
    IF ns = {} THEN << >>
    ELSE LET first == CHOOSE n \in ns : \A m \in ns : n.outerStart <= m.outerStart
         IN  <<first>> \o sortNodes(ns \ {first})

Entry(n, range) == [node |-> n, range |-> range]

covers(S, E, n) == S <= n.outerStart /\ n.outerEnd <= E

partialNode(all, S, E, at) ==
    \* the deepest node holding offset at that the range does not fully cover
    LET holding == {n \in all : n.start <= at /\ at <= n.end /\ ~covers(S, E, n)}
    IN  IF holding = {} THEN Undefined ELSE Some(Deepest(holding))

selectEntries(all, S, E, sNode, eNode, sLeaf, eLeaf) ==
    LET maximal == {n \in all : covers(S, E, n)
                                /\ ~(\E e \in all : Encloses(e, n) /\ covers(S, E, e))}
        sEntry == IF sNode = Undefined THEN << >>
                  ELSE IF sLeaf
                  THEN <<Entry(sNode[1], Some([start |-> S, end |-> Min(E, sNode[1].end)]))>>
                  ELSE IF S = sNode[1].end
                  THEN <<Entry(sNode[1], Some([start |-> S, end |-> S]))>>
                  ELSE << >>
        eEntry == IF eNode = Undefined THEN << >>
                  ELSE IF eLeaf
                  THEN IF sLeaf /\ sNode = eNode THEN << >>
                       ELSE <<Entry(eNode[1], Some([start |-> Max(S, eNode[1].start), end |-> E]))>>
                  ELSE IF E = eNode[1].start
                  THEN <<Entry(eNode[1], Some([start |-> E, end |-> E]))>>
                  ELSE << >>
    IN  sEntry \o [i \in 1..Cardinality(maximal) |-> Entry(sortNodes(maximal)[i], Undefined)]
               \o eEntry

isLeaf(all, node) == node # Undefined /\ ~hasChildren(all, node[1])

selectPartial(all, S, E, sNode, eNode) ==
    selectEntries(all, S, E, sNode, eNode, isLeaf(all, sNode), isLeaf(all, eNode))

selectNodes(all, S, E) ==
    selectPartial(all, S, E, partialNode(all, S, E, S), partialNode(all, S, E, E))

selectNodesCovered(d, S, E) == selectNodes(Nodes(d.data), S, E)

parentAt(data, offset) ==
    LET around == {e \in ElementNodes(data) : e.start <= offset /\ offset <= e.end}
    IN  IF around = {} THEN DocumentNode(data) ELSE Deepest(around)

isContentData(data) ==
    \A i \in 1..Len(data) : ~isElement(data[i]) \/ isNodeContent(BaseType(data[i]))

fixupUnder(parent, data, offset, bare, split) ==
    [offset |-> offset, remove |-> 0,
     data |-> IF bare
              THEN <<Elem("paragraph")>> \o data \o <<Elem("/paragraph")>>
              ELSE IF split
              THEN <<Elem(Closing(parent.type))>> \o data
                       \o <<ElemL(parent.type, parent.level)>>
              ELSE data,
     insertedDataOffset |-> IF bare \/ split THEN 1 ELSE 0,
     insertedDataLength |-> Len(data)]

fixupAt(parent, data, offset) ==
    fixupUnder(parent, data, offset,
               isContentData(data) /\ ~nodeCanContainContent(parent),
               ~isContentData(data) /\ nodeCanContainContent(parent))

fixupInsertion(d, data, offset) == fixupAt(parentAt(d.data, offset), data, offset)

----------------------------------------------------------------------------
(* Constructor helpers: pushInsertion, addSafeRemoveOps, pushRemoval *)

pushFixedInsertion(b, d, currentOffset, insertion) ==
    [b |-> pushReplace(pushRetain(b, insertion.offset - currentOffset), d,
                       insertion.offset, insertion.remove, insertion.data,
                       Undefined, Some(insertion.insertedDataOffset),
                       Some(insertion.insertedDataLength)),
     offset |-> insertion.offset + insertion.remove]

pushInsertion(b, d, currentOffset, insertOffset, data) ==
    pushFixedInsertion(b, d, currentOffset, fixupInsertion(d, data, insertOffset))

removeMetadataArg(removeMetadata) == IF removeMetadata THEN Some(<< >>) ELSE Undefined

RECURSIVE safeRemoveLoop(_, _, _, _, _, _, _, _, _)
safeRemoveLoop(b, d, i, removeStart, removeEnd, retainStart, queuedRetain, depth, removeMetadata) ==
    IF i >= removeEnd
    THEN IF removeEnd - removeStart # 0
         THEN LET b1 == IF queuedRetain # 0 THEN pushRetain(b, queuedRetain) ELSE b
              IN  [b |-> pushReplace(b1, d, removeStart, removeEnd - removeStart, << >>,
                                     removeMetadataArg(removeMetadata), Undefined, Undefined),
                   offset |-> removeEnd]
         ELSE [b |-> b, offset |-> retainStart]
    ELSE LET item == d.data[i + 1]
         IN  IF isElement(item) /\ ~isNodeDeletable(BaseType(item))
             THEN IF ~isClose(item)
                  THEN IF depth = 0
                       THEN LET b1 == IF queuedRetain # 0 THEN pushRetain(b, queuedRetain) ELSE b
                                b2 == pushReplace(b1, d, removeStart, i - removeStart, << >>,
                                          removeMetadataArg(removeMetadata), Undefined, Undefined)
                            IN  safeRemoveLoop(b2, d, i + 1, removeStart, removeEnd, i,
                                               queuedRetain, depth + 1, removeMetadata)
                       ELSE safeRemoveLoop(b, d, i + 1, removeStart, removeEnd, retainStart,
                                           queuedRetain, depth + 1, removeMetadata)
                  ELSE IF depth - 1 = 0
                       THEN safeRemoveLoop(b, d, i + 1, i + 1, removeEnd, retainStart,
                                           i + 1 - retainStart, depth - 1, removeMetadata)
                       ELSE safeRemoveLoop(b, d, i + 1, removeStart, removeEnd, retainStart,
                                           queuedRetain, depth - 1, removeMetadata)
             ELSE safeRemoveLoop(b, d, i + 1, removeStart, removeEnd, retainStart,
                                 queuedRetain, depth, removeMetadata)

addSafeRemoveOps(b, d, removeStart, removeEnd, removeMetadata) ==
    safeRemoveLoop(b, d, removeStart, removeStart, removeEnd, removeStart, 0, 0, removeMetadata)

entryStart(e) ==
    IF e.range # Undefined THEN e.range[1].start ELSE e.node.outerStart

\* entryEnd taking the outer end of the node even when only a range of it is covered
entryEndOuter(e) == e.node.outerEnd

entryEnd(e) ==
    IF e.range # Undefined THEN e.range[1].end ELSE e.node.outerEnd

retainAndRemove(b, d, currentOffset, removeStart, removeEnd, removeMetadata) ==
    addSafeRemoveOps(pushRetain(b, removeStart - currentOffset), d,
                     removeStart, removeEnd, removeMetadata)

RECURSIVE stripLoop(_, _, _, _, _, _, _, _)

stripFrom(r, d, selection, i, removeStart, removeEnd, removeMetadata) ==
    stripLoop(r.b, d, selection, i, r.offset, removeStart, removeEnd, removeMetadata)

stripLoop(b, d, selection, i, offset, removeStart, removeEnd, removeMetadata) ==
    \* removeStart / removeEnd are undefined (<< >>) until the first removal
    IF i > Len(selection)
    THEN IF removeEnd # Undefined
         THEN retainAndRemove(b, d, offset, removeStart[1], removeEnd[1], removeMetadata)
         ELSE [b |-> b, offset |-> offset]
    ELSE IF removeEnd = Undefined
    THEN stripLoop(b, d, selection, i + 1, offset,
                   Some(entryStart(selection[i])), Some(entryEnd(selection[i])),
                   removeMetadata)
    ELSE IF removeEnd[1] = entryStart(selection[i])
    THEN stripLoop(b, d, selection, i + 1, offset,
                   removeStart, Some(entryEnd(selection[i])), removeMetadata)
    ELSE stripFrom(retainAndRemove(b, d, offset, removeStart[1], removeEnd[1],
                                   removeMetadata),
                   d, selection, i + 1,
                   Some(entryStart(selection[i])), Some(entryEnd(selection[i])),
                   removeMetadata)

mergeStart(first, last) ==
    IF first.range = Undefined /\ last.range = Undefined THEN first.node.outerStart
    ELSE IF first.range # Undefined THEN first.range[1].start
    ELSE IF nodeIsContent(first.node) THEN first.node.outerStart
    ELSE first.node.start

mergeEnd(first, last) ==
    IF first.range = Undefined /\ last.range = Undefined THEN last.node.outerEnd
    ELSE IF last.range # Undefined THEN last.range[1].end
    ELSE IF nodeIsContent(last.node) THEN last.node.outerEnd
    ELSE last.node.end

removeBetween(b, d, currentOffset, removeMetadata, selection, first, last) ==
    IF canBeMergedWith(d.data, first.node, last.node)
    THEN retainAndRemove(b, d, currentOffset, mergeStart(first, last),
                         mergeEnd(first, last), removeMetadata)
    ELSE stripLoop(b, d, selection, 1, currentOffset, Undefined, Undefined,
                   removeMetadata)

removeSelection(b, d, currentOffset, removeMetadata, selection) ==
    IF Len(selection) = 0
    THEN [b |-> Raise(b, "Invalid range, cannot remove"), offset |-> currentOffset]
    ELSE removeBetween(b, d, currentOffset, removeMetadata, selection,
                       selection[1], selection[Len(selection)])

pushRemoval(b, d, currentOffset, range, removeMetadata) ==
    IF range.start = range.end
    THEN [b |-> pushRetain(b, range.start - currentOffset), offset |-> range.start]
    ELSE removeSelection(b, d, currentOffset, removeMetadata,
                         selectNodesCovered(d, range.start, range.end))

----------------------------------------------------------------------------
(* Constructors *)

internalListOuterStart(d) ==
    \* outer start of the internal list node, the last top-level node
    CHOOSE i \in 0..(Len(d.data) - 1) : d.data[i + 1].type = "internalList"

finalRetainFrom(r, d) == pushFinalRetain(r.b, d, r.offset, 0)

insertionAfter(r, d, data) == pushInsertion(r.b, d, r.offset, r.offset, data)

newFromReplacement(d, range, data, removeMetadata) ==
    finalRetainFrom(
        insertionAfter(pushRemoval(NewBuilder, d, 0, range, removeMetadata), d, data),
        d)

newFromInsertion(d, offset, data) ==
    finalRetainFrom(pushInsertion(NewBuilder, d, 0, offset, data), d)

keepNonEmpty(r, d, range) ==
    \* a removal of everything before the internal list leaves an empty paragraph
    IF range.start = 0 /\ range.end >= internalListOuterStart(d)
    THEN finalRetainFrom(
             insertionAfter(r, d, <<Elem("paragraph"), Elem("/paragraph")>>), d)
    ELSE finalRetainFrom(r, d)

newFromRemoval(d, range, removeMetadata) ==
    keepNonEmpty(pushRemoval(NewBuilder, d, 0, range, removeMetadata), d, range)

\* doc.internalList.getListNode(): the node of the internal list
getListNode(d) == CHOOSE n \in ElementNodes(d.data) : n.type = "internalList"

itemNodes(d) == {n \in ElementNodes(d.data) : n.type = "internalItem"}

\* doc.internalList.getItemNode( i ), undefined past the last item
getItemNode(d, i) ==
    LET found == {n \in itemNodes(d) :
                     Cardinality({m \in itemNodes(d) : m.outerStart < n.outerStart}) = i}
    IN  IF found = {} THEN Undefined ELSE Some(CHOOSE n \in found : TRUE)

RECURSIVE newItemsFrom(_, _)
newItemsFrom(newDoc, i) ==
    \* listMerge.newItemRanges: the items of newDoc that doc does not have,
    \* in order, with the data and the metadata of each
    IF getItemNode(newDoc, i) = Undefined THEN [data |-> << >>, meta |-> << >>]
    ELSE LET node == getItemNode(newDoc, i)[1]
             rest == newItemsFrom(newDoc, i + 1)
         IN  [data |-> getData(newDoc, node.outerStart, node.outerEnd) \o rest.data,
              meta |-> getMetadata(newDoc, node.outerStart, node.outerEnd) \o rest.meta]

\* the data and the metadata to insert: the given range of newDoc, or all
\* of newDoc but its internal list
insertedFromDocument(newDoc, newDocRange) ==
    LET outer == getListNode(newDoc)
        length == getLength(newDoc)
    IN  IF newDocRange # Undefined
        THEN [data |-> getData(newDoc, newDocRange[1].start, newDocRange[1].end),
              meta |-> getMetadata(newDoc, newDocRange[1].start, newDocRange[1].end)]
        ELSE [data |-> getData(newDoc, 0, outer.outerStart)
                           \o getData(newDoc, outer.outerEnd, length),
              meta |-> getMetadata(newDoc, 0, outer.outerStart)
                           \o (IF outer.outerEnd < length
                               THEN getMetadata(newDoc, outer.outerEnd + 1, length)
                               ELSE << >>)]

\* the data and the metadata of the new internal list
mergedList(d, newDoc) ==
    LET listNode == getListNode(d)
        newListNode == getListNode(newDoc)
        common == newDoc.origInternalListLength
        oldEndOffset == IF common > 0 THEN getItemNode(d, common - 1)[1].outerEnd
                        ELSE listNode.start
        newEndOffset == IF common > 0 THEN getItemNode(newDoc, common - 1)[1].outerEnd
                        ELSE newListNode.start
        added == newItemsFrom(newDoc, common)
    IN  IF newDoc.origDoc
        THEN [data |-> getData(newDoc, newListNode.start, newEndOffset)
                           \o getData(d, oldEndOffset, listNode.end) \o added.data,
              meta |-> getMetadata(newDoc, newListNode.start, newEndOffset)
                           \o getMetadata(d, oldEndOffset, listNode.end) \o added.meta]
        ELSE [data |-> getData(d, listNode.start, listNode.end) \o added.data,
              meta |-> getMetadata(d, listNode.start, listNode.end) \o added.meta]

RECURSIVE spliceItemIndex(_, _, _)
spliceItemIndex(d, offset, i) ==
    \* the first item of doc whose range does not end before the offset
    IF offset > getItemNode(d, i)[1].end THEN spliceItemIndex(d, offset, i + 1) ELSE i

\* the new internal list with the inserted data in place of the contents of
\* the item found
splicedList(d, offset, newDoc, inserted, list) ==
    LET i == spliceItemIndex(d, offset, 0)
        spliceItemRange == IF newDoc.origDoc THEN getItemNode(newDoc, i)[1]
                           ELSE getItemNode(d, i)[1]
        spliceListNodeRange == IF newDoc.origDoc THEN getListNode(newDoc)
                               ELSE getListNode(d)
        at == spliceItemRange.start - spliceListNodeRange.start
        length == spliceItemRange.end - spliceItemRange.start
    IN  [data |-> Splice(list.data, at, length, inserted.data),
         meta |-> Splice(list.meta, at, length, inserted.meta)]

replaceList(b, d, list) ==
    pushReplace(b, d, getListNode(d).start, getListNode(d).end - getListNode(d).start,
                list.data, Some(list.meta), Undefined, Undefined)

replaceNode(b, d, insertion, inserted) ==
    pushReplace(b, d, insertion.offset, insertion.remove, insertion.data,
                Some(inserted.meta), Undefined, Undefined)

nodeThenList(d, insertion, inserted, list) ==
    pushFinalRetain(
        replaceList(
            pushRetain(
                replaceNode(pushRetain(NewBuilder, insertion.offset), d, insertion, inserted),
                getListNode(d).start - (insertion.offset + insertion.remove)),
            d, list),
        d, getListNode(d).end, 0)

listThenNode(d, insertion, inserted, list) ==
    pushFinalRetain(
        replaceNode(
            pushRetain(
                replaceList(pushRetain(NewBuilder, getListNode(d).start), d, list),
                insertion.offset - getListNode(d).end),
            d, insertion, inserted),
        d, insertion.offset + insertion.remove, 0)

listOnly(d, list) ==
    pushFinalRetain(
        replaceList(pushRetain(NewBuilder, getListNode(d).start), d, list),
        d, getListNode(d).end, 0)

\* newFromDocumentInsertion with the start of the list node's range taken
\* as inside it
documentInsertionFromStart(d, offset, inserted, list, newDoc) ==
    IF offset < getListNode(d).start
    THEN nodeThenList(d, fixupInsertion(d, inserted.data, offset), inserted, list)
    ELSE IF offset >= getListNode(d).end
    THEN listThenNode(d, fixupInsertion(d, inserted.data, offset), inserted, list)
    ELSE listOnly(d, splicedList(d, offset, newDoc, inserted, list))

documentInsertion(d, offset, inserted, list, newDoc) ==
    IF offset <= getListNode(d).start
    THEN nodeThenList(d, fixupInsertion(d, inserted.data, offset), inserted, list)
    ELSE IF offset >= getListNode(d).end
    THEN listThenNode(d, fixupInsertion(d, inserted.data, offset), inserted, list)
    ELSE listOnly(d, splicedList(d, offset, newDoc, inserted, list))

newFromDocumentInsertion(d, offset, newDoc, newDocRange) ==
    documentInsertion(d, offset, insertedFromDocument(newDoc, newDocRange),
                      mergedList(d, newDoc), newDoc)

newFromAttributeChanges(d, offset, attr) ==
    IF ~isElement(d.data[offset + 1])
    THEN Raise(NewBuilder, "Cannot set attributes to non-element data")
    ELSE IF isClose(d.data[offset + 1])
    THEN Raise(NewBuilder, "Cannot set attributes on closing element")
    ELSE pushFinalRetain(
             pushAttributeChanges(pushRetain(NewBuilder, offset), attr,
                                  d.data[offset + 1].level),
             d, offset, 0)

shouldIgnoreChildren(t) == t \in {"reference"}

canNodeTakeAnnotationType(t, annotation) == ~(t = "inlineImage" /\ annotation = 3)

Comparable(a1, a2) == a1 = a2 \/ {a1, a2} = {1, 2}

containsComparable(anns, annotation) == \E a \in anns : Comparable(a, annotation)

storeIndex(annotation) == annotation

\* the store once index( annotation ) has returned: a value it did not hold is
\* added, so that the index the operations carry can be looked up
indexed(s, annotation) == s \cup {annotation}

RECURSIVE annotationLoop(_, _, _, _, _, _, _, _, _, _)
annotationLoop(b, d, i, rangeEnd, method, annotation, span, on, insideContentNode, ignoreChildrenDepth) ==
    IF i >= rangeEnd
    THEN LET b1 == pushRetain(b, span)
         IN  IF on THEN pushStopAnnotating(b1, method, storeIndex(annotation)) ELSE b1
    ELSE
    LET item == d.data[i + 1]
        type == BaseType(item)
        depth == IF isElement(item) /\ shouldIgnoreChildren(type)
                 THEN ignoreChildrenDepth + (IF isOpen(item) THEN 1 ELSE -1)
                 ELSE ignoreChildrenDepth
        annotatable0 ==
            IF isElement(item)
            THEN IF isNodeContent(type)
                 THEN ~(method = "set" /\ ~canNodeTakeAnnotationType(type, annotation))
                 ELSE FALSE
            ELSE TRUE
        annotatable == annotatable0 /\ depth = 0
        stop == pushStopAnnotating(pushRetain(b, span), method, storeIndex(annotation))
        start == pushStartAnnotating(pushRetain(b, span), method, storeIndex(annotation))
        covered == IF method = "set" THEN containsComparable(item.ann, annotation)
                   ELSE annotation \in item.ann
    IN  IF ~annotatable \/ (insideContentNode /\ ~isClose(item))
        THEN IF on
             THEN annotationLoop(stop, d, i + 1, rangeEnd, method, annotation,
                                 1, FALSE, insideContentNode, depth)
             ELSE annotationLoop(b, d, i + 1, rangeEnd, method, annotation,
                                 span + 1, on, insideContentNode, depth)
        ELSE IF (~isElement(item) \/ ~isClose(item)) /\ ~insideContentNode
        THEN LET inside == isElement(item)
             IN  IF (covered /\ method = "set") \/ (~covered /\ method = "clear")
                 THEN IF on
                      THEN annotationLoop(stop, d, i + 1, rangeEnd, method, annotation,
                                          1, FALSE, inside, depth)
                      ELSE annotationLoop(b, d, i + 1, rangeEnd, method, annotation,
                                          span + 1, on, inside, depth)
                 ELSE IF ~on
                      THEN annotationLoop(start, d, i + 1, rangeEnd, method, annotation,
                                          1, TRUE, inside, depth)
                      ELSE annotationLoop(b, d, i + 1, rangeEnd, method, annotation,
                                          span + 1, on, inside, depth)
        ELSE IF isClose(item)
        THEN annotationLoop(b, d, i + 1, rangeEnd, method, annotation,
                            span + 1, on, FALSE, depth)
        ELSE annotationLoop(b, d, i + 1, rangeEnd, method, annotation,
                            span + 1, on, insideContentNode, depth)

\* one span over the whole range, whatever the items carry
annotateWholeRange(d, range, method, annotation) ==
    pushFinalRetain(
        pushStopAnnotating(
            pushRetain(
                pushStartAnnotating(pushRetain(NewBuilder, range.start), method,
                                    storeIndex(annotation)),
                range.end - range.start),
            method, storeIndex(annotation)),
        d, range.end, 0)

newFromAnnotation(d, range, method, annotation) ==
    pushFinalRetain(
        annotationLoop(NewBuilder, d, range.start, range.end, method, annotation,
                       range.start, FALSE, FALSE, 0),
        d, range.end, 0)

newFromMetadataInsertion(d, offset, index, newElements) ==
    LET elements == d.meta[offset + 1]
    IN  IF Len(newElements) = 0 THEN NewBuilder
        ELSE pushFinalRetain(
                 pushRetainMetadata(
                     pushReplaceMetadata(
                         pushRetainMetadata(pushRetain(NewBuilder, offset), index),
                         << >>, newElements),
                     Len(elements) - index),
                 d, offset, Len(elements))

newFromMetadataRemoval(d, offset, range) ==
    LET elements == d.meta[offset + 1]
        selection == IF range.start < range.end
                     THEN SubSeq(elements, range.start + 1, range.end)
                     ELSE << >>
    IN  IF Len(elements) = 0
        THEN Raise(NewBuilder, "Cannot remove metadata from empty list")
        ELSE IF range.start < 0 \/ range.end > Len(elements)
        THEN Raise(NewBuilder, "Range out of bounds")
        ELSE IF Len(selection) = 0 THEN NewBuilder
        ELSE pushFinalRetain(
                 pushRetainMetadata(
                     pushReplaceMetadata(
                         pushRetainMetadata(pushRetain(NewBuilder, offset), range.start),
                         selection, << >>),
                     Len(elements) - range.end),
                 d, offset, Len(elements))

newFromMetadataElementReplacement(d, offset, index, newElement) ==
    LET elements == d.meta[offset + 1]
    IN  IF index >= Len(elements)
        THEN Raise(NewBuilder, "Metadata index out of bounds")
        ELSE pushFinalRetain(
                 pushRetainMetadata(
                     pushReplaceMetadata(
                         pushRetainMetadata(pushRetain(NewBuilder, offset), index),
                         <<elements[index + 1]>>, <<newElement>>),
                     Len(elements) - index - 1),
                 d, offset, Len(elements))

isLeafNode(all, n) == ~hasChildren(all, n)

leavesIn(all, S, E) ==
    \* the childless nodes whose inner range touches the range, in document order
    sortNodes({n \in all : isLeafNode(all, n) /\ n.start <= E /\ S <= n.end})

selectNodesLeaves(d, S, E) == leavesIn(Nodes(d.data), S, E)

attrsHave(attr, level) == attr = Undefined \/ attr[1] = level

branchOf(tree, node) == IF nodeIsContent(node) THEN getParent(tree, node) ELSE node

convertBranch(b, d, branch, type, attr, previousEnd) ==
    IF branch.type = type
    THEN pushRetain(
             pushAttributeChanges(pushRetain(b, branch.outerStart - previousEnd),
                                  attr, branch.level),
             branch.outerEnd - branch.outerStart)
    ELSE pushReplace(
             pushRetain(
                 pushReplace(pushRetain(b, branch.outerStart - previousEnd), d,
                             branch.outerStart, 1,
                             <<ElemL(type, IF attr = Undefined THEN 0 ELSE attr[1])>>,
                             Undefined, Undefined, Undefined),
                 branch.end - branch.start),
             d, branch.outerEnd - 1, 1, <<Elem(Closing(type))>>,
             Undefined, Undefined, Undefined)

RECURSIVE conversionLoop(_, _, _, _, _, _, _, _)

convertSelected(b, d, tree, selection, i, type, attr, previousBranch, branch) ==
    IF \/ ~nodeCanContainContent(branch)
       \/ (branch.type = type /\ attrsHave(attr, branch.level))
       \/ Some(branch) = previousBranch
    THEN conversionLoop(b, d, tree, selection, i + 1, type, attr, previousBranch)
    ELSE conversionLoop(
             convertBranch(b, d, branch, type, attr,
                           IF previousBranch # Undefined THEN previousBranch[1].outerEnd
                           ELSE 0),
             d, tree, selection, i + 1, type, attr, Some(branch))

conversionLoop(b, d, tree, selection, i, type, attr, previousBranch) ==
    IF i > Len(selection)
    THEN pushFinalRetain(b, d,
             IF previousBranch # Undefined THEN previousBranch[1].outerEnd ELSE 0, 0)
    ELSE convertSelected(b, d, tree, selection, i, type, attr, previousBranch,
                         branchOf(tree, selection[i]))

newFromContentBranchConversion(d, range, type, attr) ==
    conversionLoop(NewBuilder, d, Tree(d.data),
                   selectNodesLeaves(d, range.start, range.end), 1, type, attr, Undefined)

\* the wrappers in reverse order, not turned into closings
reversedArray(openings) ==
    [i \in 1..Len(openings) |-> openings[Len(openings) - i + 1]]

closingArray(openings) ==
    [i \in 1..Len(openings) |-> Elem(Closing(openings[Len(openings) - i + 1].type))]

\* a comparison of the whole items, attributes included
itemsMatch(found, expected) ==
    \A i \in 1..Len(found) : found[i] = expected[i]

typesMatch(found, expected) ==
    \A i \in 1..Len(found) : found[i].type = expected[i].type

RECURSIVE wrapLoop(_, _, _, _, _, _, _, _)
wrapLoop(b, d, i, rangeEnd, unwrapEach, wrapEach, depth, startOffset) ==
    IF i >= rangeEnd \/ b.err # "" THEN b
    ELSE IF ~isElement(d.data[i + 1])
    THEN wrapLoop(b, d, i + 1, rangeEnd, unwrapEach, wrapEach, depth, startOffset)
    ELSE IF ~isClose(d.data[i + 1])
    THEN IF depth = 0
         THEN IF ~typesMatch(getData(d, i, i + Len(unwrapEach)), unwrapEach)
              THEN Raise(b, "Element in unwrapEach does not match")
              ELSE wrapLoop(pushReplace(b, d, i, Len(unwrapEach), wrapEach,
                                        Undefined, Undefined, Undefined),
                            d, i + 1, rangeEnd, unwrapEach, wrapEach, depth + 1,
                            i + Len(unwrapEach))
         ELSE wrapLoop(b, d, i + 1, rangeEnd, unwrapEach, wrapEach, depth + 1, startOffset)
    ELSE IF depth - 1 = 0
    THEN wrapLoop(pushReplace(pushRetain(b, (i + 1) - Len(unwrapEach) - startOffset), d,
                              (i + 1) - Len(unwrapEach), Len(unwrapEach),
                              closingArray(wrapEach), Undefined, Undefined, Undefined),
                  d, i + 1, rangeEnd, unwrapEach, wrapEach, depth - 1, startOffset)
    ELSE wrapLoop(b, d, i + 1, rangeEnd, unwrapEach, wrapEach, depth - 1, startOffset)

wrapStart(d, range, unwrapOuter) ==
    IF range.start > Len(unwrapOuter)
    THEN pushRetain(NewBuilder, range.start - Len(unwrapOuter))
    ELSE IF range.start < Len(unwrapOuter)
    THEN Raise(NewBuilder, "unwrapOuter is longer than the data preceding the range")
    ELSE NewBuilder

\* an outer opening that removes the unwrapOuter elements it was given
\* instead of the items of the document
wrapOuterOpenAsGiven(b, d, range, unwrapOuter, wrapOuter) ==
    IF b.err # "" \/ (Len(wrapOuter) = 0 /\ Len(unwrapOuter) = 0) THEN b
    ELSE IF ~typesMatch(getData(d, range.start - Len(unwrapOuter), range.start), unwrapOuter)
    THEN Raise(b, "Element in unwrapOuter does not match")
    ELSE pushReplaceInternal(b, unwrapOuter, wrapOuter, Undefined, Undefined,
                             Undefined, Undefined)

wrapOuterOpen(b, d, range, unwrapOuter, wrapOuter) ==
    IF b.err # "" \/ (Len(wrapOuter) = 0 /\ Len(unwrapOuter) = 0) THEN b
    ELSE IF ~typesMatch(getData(d, range.start - Len(unwrapOuter), range.start), unwrapOuter)
    THEN Raise(b, "Element in unwrapOuter does not match")
    ELSE pushReplace(b, d, range.start - Len(unwrapOuter), Len(unwrapOuter), wrapOuter,
                     Undefined, Undefined, Undefined)

wrapEachOrRetain(b, d, range, unwrapEach, wrapEach) ==
    IF Len(wrapEach) > 0 \/ Len(unwrapEach) > 0
    THEN wrapLoop(b, d, range.start, range.end, unwrapEach, wrapEach, 0, 0)
    ELSE pushRetain(b, range.end - range.start)

newFromWrap(d, range, unwrapOuter, wrapOuter, unwrapEach, wrapEach) ==
    pushFinalRetain(
        pushReplace(
            wrapEachOrRetain(
                wrapOuterOpen(wrapStart(d, range, unwrapOuter), d, range,
                              unwrapOuter, wrapOuter),
                d, range, unwrapEach, wrapEach),
            d, range.end, Len(unwrapOuter), closingArray(wrapOuter),
            Undefined, Undefined, Undefined),
        d, range.end + Len(unwrapOuter), 0)

----------------------------------------------------------------------------
(* Transactions: construction, clone, reversal *)

Transaction(operations) == [operations |-> operations, applied |-> FALSE]

\* new ve.dm.Transaction() starts unapplied; only markAsApplied writes the flag
hasBeenApplied(tx) == tx.applied

\* markAsApplied that flips the flag instead of setting it
markAsAppliedFlip(tx) == [tx EXCEPT !.applied = ~tx.applied]

markAsApplied(tx) == [tx EXCEPT !.applied = TRUE]

\* ve.copy: a deep copy, whose arrays and objects are new ones
copy(value) == [value |-> value, shared |-> FALSE]

\* clone() that carries the applied flag over
cloneWithFlag(tx) == [operations |-> copy(tx.operations).value, applied |-> tx.applied]

clone(tx) == Transaction(copy(tx.operations).value)

\* reverseMethod with the 'clear' -> 'set' entry missing
reverseMethodOneWay(method) == "clear"

reverseMethod(method) ==
    CASE method = "set" -> "clear"
      [] method = "clear" -> "set"

\* reverseOp with only the replace entry of the reversers table
reverseOpReplaceOnly(op) ==
    IF op.type = "replace"
    THEN [op EXCEPT !.insert = op.remove, !.remove = op.insert]
    ELSE op

reverseOp(op) ==
    CASE op.type = "annotate" -> [op EXCEPT !.method = reverseMethod(op.method)]
      [] op.type = "attribute" -> [op EXCEPT !.from = op.to, !.to = op.from]
      [] op.type = "replace" ->
            IF hasField(op, "insertMetadata")
            THEN [op EXCEPT !.insert = op.remove, !.remove = op.insert,
                            !.insertMetadata = op.removeMetadata,
                            !.removeMetadata = op.insertMetadata]
            ELSE [op EXCEPT !.insert = op.remove, !.remove = op.insert]
      [] op.type = "replaceMetadata" -> [op EXCEPT !.insert = op.remove, !.remove = op.insert]
      [] OTHER -> op

\* reversed() that copies the operations without reversing any
reversedAsIs(tx) == Transaction(tx.operations)

reversed(tx) ==
    Transaction([i \in 1..Len(tx.operations) |-> reverseOp(tx.operations[i])])

----------------------------------------------------------------------------
(* Offsets and ranges through a transaction *)

\* a JavaScript condition on an optional boolean argument
truthy(flag) == flag # Undefined /\ flag[1]

RECURSIVE translateLoop(_, _, _, _, _, _)
translateLoop(ops, i, offset, excludeInsertion, cursor, adjustment) ==
    IF i > Len(ops) THEN offset + adjustment
    ELSE
    LET op == ops[i]
    IN  IF op.type = "replace"
        THEN LET insertLength == Len(op.insert)
                 removeLength == Len(op.remove)
                 prevAdjustment == adjustment
                 adjusted == adjustment + insertLength - removeLength
             IN  IF offset = cursor + removeLength
                 THEN IF truthy(excludeInsertion) /\ insertLength > removeLength
                      THEN offset + adjusted - insertLength + removeLength
                      ELSE offset + adjusted
                 ELSE IF offset = cursor
                 THEN IF insertLength = 0
                      THEN cursor + removeLength + adjusted
                      ELSE cursor + prevAdjustment
                 ELSE IF offset > cursor /\ offset < cursor + removeLength
                 THEN cursor + removeLength + adjusted
                 ELSE translateLoop(ops, i + 1, offset, excludeInsertion,
                                    cursor + removeLength, adjusted)
        ELSE IF op.type = "retain"
        THEN IF offset >= cursor /\ offset < cursor + op.length
             THEN offset + adjustment
             ELSE translateLoop(ops, i + 1, offset, excludeInsertion,
                                cursor + op.length, adjustment)
        ELSE translateLoop(ops, i + 1, offset, excludeInsertion, cursor, adjustment)

\* translateOffset that never maps an offset to after an insertion
translateOffsetExcluding(tx, offset, excludeInsertion) ==
    translateLoop(tx.operations, 1, offset, Some(TRUE), 0, 0)

translateOffset(tx, offset, excludeInsertion) ==
    translateLoop(tx.operations, 1, offset, excludeInsertion, 0, 0)

\* ve.Range: from and to as given, start and end in document order
Range(from, to) ==
    [from |-> from, to |-> to, start |-> Min(from, to), end |-> Max(from, to)]

isBackwards(range) == range.from > range.to

\* translateRange with the two uses of excludeInsertion exchanged
translateRangeShrinking(tx, range, excludeInsertion) ==
    LET start == translateOffset(tx, range.start, excludeInsertion)
        end == translateOffset(tx, range.end, Some(~truthy(excludeInsertion)))
    IN  IF isBackwards(range) THEN Range(end, start) ELSE Range(start, end)

translateRange(tx, range, excludeInsertion) ==
    LET start == translateOffset(tx, range.start, Some(~truthy(excludeInsertion)))
        end == translateOffset(tx, range.end, excludeInsertion)
    IN  IF isBackwards(range) THEN Range(end, start) ELSE Range(start, end)

RECURSIVE modifiedLoop(_, _, _, _, _, _, _)
modifiedLoop(ops, i, docEndOffset, oldOffset, offset, start, end) ==
    IF i > Len(ops) THEN [start |-> start, end |-> end]
    ELSE
    LET op == ops[i]
    IN  IF op.type = "retainMetadata"
        THEN modifiedLoop(ops, i + 1, docEndOffset, oldOffset, offset, start, end)
        ELSE IF op.type = "retain"
        THEN IF oldOffset + op.length > docEndOffset
             THEN [start |-> start, end |-> end]
             ELSE modifiedLoop(ops, i + 1, docEndOffset, oldOffset + op.length,
                               offset + op.length, start, end)
        ELSE
        LET start1 == IF start = Undefined
                      THEN Some(offset + (IF hasField(op, "insertedDataOffset")
                                          THEN op.insertedDataOffset ELSE 0))
                      ELSE start
            offset1 == IF op.type = "replace" THEN offset + Len(op.insert) ELSE offset
            oldOffset1 == IF op.type = "replace" THEN oldOffset + Len(op.remove)
                          ELSE oldOffset
            end1 == IF hasField(op, "insertedDataLength") /\ op.insertedDataLength # 0
                    THEN Some(start1[1] + op.insertedDataLength)
                    ELSE Some(offset1)
        IN  modifiedLoop(ops, i + 1, docEndOffset, oldOffset1, offset1, start1, end1)

\* getModifiedRange reading up to the end of the data, as for a document
\* without an internal list node
getModifiedRangeToEnd(tx, d) ==
    LET found == modifiedLoop(tx.operations, 1, getLength(d), 0, 0, Undefined, Undefined)
    IN  IF found.start = Undefined \/ found.end = Undefined THEN Undefined
        ELSE Some(Range(found.start[1], found.end[1]))

getModifiedRange(tx, d) ==
    LET found == modifiedLoop(tx.operations, 1, internalListOuterStart(d), 0, 0,
                              Undefined, Undefined)
    IN  IF found.start = Undefined \/ found.end = Undefined THEN Undefined
        ELSE Some(Range(found.start[1], found.end[1]))

----------------------------------------------------------------------------
(* Rebase *)

RECURSIVE activeRangeLoop(_, _, _, _, _, _, _)
activeRangeLoop(ops, i, offset, annotations, diff, start, end) ==
    IF i > Len(ops) THEN [start |-> start, end |-> end, diff |-> diff]
    ELSE
    LET op == ops[i]
    IN  IF op.type = "annotate"
        THEN activeRangeLoop(ops, i + 1, offset,
                             annotations + (IF op.bias = "start" THEN 1 ELSE -1),
                             diff, start, end)
        ELSE
        LET active == annotations > 0 \/ (op.type # "retain" /\ op.type # "retainMetadata")
            start1 == IF active /\ start = Undefined THEN Some(offset) ELSE start
            offset1 == IF op.type = "retain" THEN offset + op.length
                       ELSE IF op.type = "replace" THEN offset + Len(op.remove)
                       ELSE offset
            diff1 == IF op.type = "replace" THEN diff + Len(op.insert) - Len(op.remove)
                     ELSE diff
            end1 == IF op.type = "attribute" \/ op.type = "replaceMetadata"
                    THEN Some(offset1 + 1)
                    ELSE IF active THEN Some(offset1) ELSE end
        IN  activeRangeLoop(ops, i + 1, offset1, annotations, diff1, start1, end1)

getActiveRangeAndLengthDiff(tx) ==
    activeRangeLoop(tx.operations, 1, 0, 0, 0, Undefined, Undefined)

RemoveAt(ops, i) == SubSeq(ops, 1, i - 1) \o SubSeq(ops, i + 1, Len(ops))

\* adjustRetain that leaves the operations list as it is
adjustRetainSkipped(b, place, diff) == b

adjustRetain(b, place, diff) ==
    \* b is [ops, err]; positions are one-based, so the source's index i is i + 1 here
    LET ops == b.ops
        atStart == place = "start"
        i0 == IF atStart THEN 1 ELSE Len(ops)
        i == IF ~atStart /\ i0 >= 1 /\ i0 <= Len(ops) /\ ops[i0].type = "retainMetadata"
             THEN Len(ops) - 1
             ELSE i0
        isRetain == i >= 1 /\ i <= Len(ops) /\ ops[i].type = "retain"
    IN  IF b.err # "" \/ diff = 0 THEN b
        ELSE IF isRetain
        THEN IF ops[i].length + diff < 0 THEN Raise(b, "Negative retain length")
             ELSE IF ops[i].length + diff = 0 THEN [b EXCEPT !.ops = RemoveAt(ops, i)]
             ELSE [b EXCEPT !.ops[i].length = @ + diff]
        ELSE IF diff < 0 THEN Raise(b, "Negative retain length")
        ELSE IF atStart
        THEN [b EXCEPT !.ops = <<[type |-> "retain", length |-> diff]>> \o ops]
        ELSE [b EXCEPT !.ops = Append(ops, [type |-> "retain", length |-> diff])]

NoResult == [status |-> "none", a |-> Undefined, b |-> Undefined, err |-> ""]

Conflict == [status |-> "conflict", a |-> Undefined, b |-> Undefined, err |-> ""]

adjustSecond(first, ops, place, diff) ==
    \* the second adjustRetain call runs only when the first did not throw
    IF first.err # ""
    THEN [first |-> first, second |-> ops]
    ELSE [first |-> first, second |-> adjustRetain(ops, place, diff)]

adjustBoth(ops1, place1, diff1, ops2, place2, diff2) ==
    adjustSecond(adjustRetain(ops1, place1, diff1), ops2, place2, diff2)

rebaseResult(a, b) ==
    IF a.err # "" THEN [status |-> "error", a |-> Undefined, b |-> Undefined, err |-> a.err]
    ELSE IF b.err # "" THEN [status |-> "error", a |-> Undefined, b |-> Undefined, err |-> b.err]
    ELSE [status |-> "ok", a |-> Some(Transaction(a.ops)), b |-> Some(Transaction(b.ops)),
          err |-> ""]

resultAB(r) == rebaseResult(r.first, r.second)

\* the pair returned in the order the retains were adjusted in
resultUnswapped(r) == rebaseResult(r.first, r.second)

resultBA(r) == rebaseResult(r.second, r.first)

rebaseWith(cloneA, cloneB, infoA, infoB) ==
    IF infoA.start = Undefined \/ infoB.start = Undefined
    THEN resultAB(adjustBoth(cloneA, "start", infoB.diff, cloneB, "start", infoA.diff))
    ELSE IF infoA.end[1] <= infoB.start[1]
    THEN resultBA(adjustBoth(cloneB, "start", infoA.diff, cloneA, "end", infoB.diff))
    ELSE IF infoB.end[1] <= infoA.start[1]
    THEN resultAB(adjustBoth(cloneA, "start", infoB.diff, cloneB, "end", infoA.diff))
    ELSE Conflict

\* the pair returned is the two clones, their operations adjusted in place
returnedClones(r, cloneA, cloneB) ==
    IF r.status # "ok" THEN r
    ELSE [r EXCEPT !.a = Some([cloneA EXCEPT !.operations = r.a[1].operations]),
                   !.b = Some([cloneB EXCEPT !.operations = r.b[1].operations])]

rebaseTransactions(transactionA, transactionB) ==
    returnedClones(
        rebaseWith([ops |-> clone(transactionA).operations, err |-> ""],
                   [ops |-> clone(transactionB).operations, err |-> ""],
                   getActiveRangeAndLengthDiff(transactionA),
                   getActiveRangeAndLengthDiff(transactionB)),
        clone(transactionA), clone(transactionB))

firstOf(r) == [r EXCEPT !.b = Undefined]

\* index 0 of the pair where index 1 is meant
secondAsFirst(r) == [r EXCEPT !.b = Undefined]

secondOf(r) == [r EXCEPT !.a = r.b, !.b = Undefined]

\* rebasedOnto with the startmost argument ignored
rebasedOntoEndmost(this, other, startmost) == secondOf(rebaseTransactions(other, this))

rebasedOnto(this, other, startmost) ==
    \* the result record of the rebase with only the caller's transaction kept, in a
    IF startmost THEN firstOf(rebaseTransactions(this, other))
    ELSE secondOf(rebaseTransactions(other, this))

----------------------------------------------------------------------------
(* Bounds and the inputs drawn from them *)

MaxRangeLen == 3

MaxMetaIndex == 2

NoMeta(n) == Holes(n + 1)

DocParagraphs ==
    LET data == <<Elem("paragraph"), Char("a"), Char("b"), Elem("/paragraph"),
                  Elem("paragraph"), Char("c"), Elem("/paragraph"),
                  Elem("internalList"), Elem("/internalList")>>
    IN  [data |-> data,
         meta |-> [NoMeta(Len(data)) EXCEPT ![5] = <<"m1">>, ![10] = <<"m2">>]]

DocHeading ==
    LET data == <<ElemL("heading", 1), Char("a"), CharA("b", {1}),
                  Elem("inlineImage"), Elem("/inlineImage"), Elem("/heading"),
                  Elem("section"), Elem("paragraph"), CharA("c", {2}),
                  Elem("/paragraph"), Elem("/section"),
                  Elem("internalList"), Elem("/internalList")>>
    IN  [data |-> data,
         meta |-> [NoMeta(Len(data)) EXCEPT ![7] = <<"m1", "m3">>]]

Docs == {DocParagraphs, DocHeading}

\* two paragraphs of one letter each, the document of the list example in
\* the documentation of newFromWrap
DocTwoParagraphs ==
    LET data == <<Elem("paragraph"), Char("a"), Elem("/paragraph"),
                  Elem("paragraph"), Char("b"), Elem("/paragraph")>>
    IN  [data |-> data, meta |-> NoMeta(Len(data))]

WrapDocs == Docs \cup {DocTwoParagraphs}

\* a paragraph inside a node whose children are ignored, between two others
DocReference ==
    LET data == <<Elem("paragraph"), Char("a"), Elem("/paragraph"),
                  Elem("reference"), Elem("paragraph"), CharA("b", {1}),
                  Elem("/paragraph"), Elem("/reference"),
                  Elem("paragraph"), Char("c"), Elem("/paragraph"),
                  Elem("internalList"), Elem("/internalList")>>
    IN  [data |-> data, meta |-> NoMeta(Len(data))]

AnnotationDocs == Docs \cup {DocReference}

\* two sections, nodes that cannot be deleted, of one paragraph each
DocSections ==
    LET data == <<Elem("section"), Elem("paragraph"), Char("a"),
                  Elem("/paragraph"), Elem("/section"),
                  Elem("section"), Elem("paragraph"), Char("b"),
                  Elem("/paragraph"), Elem("/section"),
                  Elem("internalList"), Elem("/internalList")>>
    IN  [data |-> data, meta |-> NoMeta(Len(data))]

RemovalDocs == Docs \cup {DocSections}

\* a paragraph whose first two letters both have metadata before them
DocMetadata ==
    LET data == <<Elem("paragraph"), Char("a"), Char("b"), Char("c"),
                  Elem("/paragraph"),
                  Elem("internalList"), Elem("/internalList")>>
    IN  [data |-> data,
         meta |-> [NoMeta(Len(data)) EXCEPT ![2] = <<"m1">>, ![3] = <<"m2">>]]

\* a document whose internal list holds two items
DocItems ==
    LET data == <<Elem("paragraph"), Char("a"), Elem("/paragraph"),
                  Elem("internalList"),
                  Elem("internalItem"), Elem("paragraph"), Char("r"),
                  Elem("/paragraph"), Elem("/internalItem"),
                  Elem("internalItem"), Elem("paragraph"), Char("s"),
                  Elem("/paragraph"), Elem("/internalItem"),
                  Elem("/internalList")>>
    IN  [data |-> data, meta |-> NoMeta(Len(data))]

ItemDocs == {DocItems}

\* the documents to insert: a new one without internal items, a new one
\* with an item and a metadata item, and a slice of DocItems that changes
\* the first of the two items it has in common with it
NewDocs ==
    LET plain == <<Elem("paragraph"), Char("x"), Elem("/paragraph"),
                   Elem("internalList"), Elem("/internalList")>>
        item == <<Elem("paragraph"), Char("x"), Elem("/paragraph"),
                  Elem("internalList"),
                  Elem("internalItem"), Elem("paragraph"), Char("n"),
                  Elem("/paragraph"), Elem("/internalItem"),
                  Elem("/internalList")>>
        slice == <<Elem("paragraph"), Char("x"), Elem("/paragraph"),
                   Elem("internalList"),
                   Elem("internalItem"), Elem("paragraph"), Char("q"), Char("r"),
                   Elem("/paragraph"), Elem("/internalItem"),
                   Elem("internalItem"), Elem("paragraph"), Char("s"),
                   Elem("/paragraph"), Elem("/internalItem"),
                   Elem("/internalList")>>
    IN  { [data |-> plain, meta |-> NoMeta(Len(plain)),
           origDoc |-> FALSE, origInternalListLength |-> 0],
          [data |-> item, meta |-> [NoMeta(Len(item)) EXCEPT ![2] = <<"n1">>],
           origDoc |-> FALSE, origInternalListLength |-> 0],
          [data |-> slice, meta |-> NoMeta(Len(slice)),
           origDoc |-> TRUE, origInternalListLength |-> 2] }

\* the range of the new document to insert: omitted, or its first node
NewDocRanges == {Undefined, Some([from |-> 0, to |-> 3, start |-> 0, end |-> 3])}

Offsets(d) == 0..getLength(d)

Ranges(d) ==
    { [start |-> s, end |-> e] :
        <<s, e>> \in {q \in Offsets(d) \X Offsets(d) : q[1] < q[2] /\ q[2] - q[1] <= MaxRangeLen} }

\* the ranges from the start of the document to the internal list or into it
WholeRanges(d) ==
    { [start |-> 0, end |-> e] : e \in internalListOuterStart(d)..getLength(d) }

\* the ranges from inside a branch of one undeletable node to inside a
\* branch of a later one
AcrossUndeletable(d) ==
    { [start |-> s, end |-> e] :
        <<s, e>> \in
            UNION { UNION { (m1.start..m1.end) \X (m2.start..m2.end) :
                <<m1, m2>> \in {q \in ElementNodes(d.data) \X ElementNodes(d.data) :
                    /\ canContainContent(q[1].type) /\ canContainContent(q[2].type)
                    /\ n1.start <= q[1].start /\ q[1].end <= n1.end
                    /\ n2.start <= q[2].start /\ q[2].end <= n2.end} } :
                <<n1, n2>> \in {q \in ElementNodes(d.data) \X ElementNodes(d.data) :
                    /\ ~isNodeDeletable(q[1].type) /\ ~isNodeDeletable(q[2].type)
                    /\ q[1].outerEnd <= q[2].outerStart} } }

InsertData == { <<Char("x")>>, <<Char("y")>>,
                <<Elem("paragraph"), Char("z"), Elem("/paragraph")>> }

Annotations == {1, 2, 3}

Levels == {0, 2}

MetaElements == { <<"n1">>, << >> }

MetaIndexes == -1..MaxMetaIndex

MetaRanges ==
    { [start |-> s, end |-> e] :
        <<s, e>> \in {q \in MetaIndexes \X MetaIndexes : q[1] <= q[2]} }

ConversionTypes == {"heading", "paragraph"}

ConversionAttrs == {Undefined, Some(2)}

NodeRanges(d) ==
    \* the inner range of every element, and the span from 0 to its outer end
    {[start |-> n.start, end |-> n.end] : n \in ElementNodes(d.data)}
        \cup {[start |-> 0, end |-> n.outerEnd] : n \in ElementNodes(d.data)}

InsideRanges(d) ==
    \* the ranges from the inner start of an element to an offset before its
    \* inner end
    UNION { {[start |-> n.start, end |-> e] : e \in (n.start + 1)..(n.end - 1)} :
                n \in ElementNodes(d.data) }

WrapInstructions ==
    { [unwrapOuter |-> <<Elem("paragraph")>>, wrapOuter |-> <<ElemL("heading", 2)>>,
       unwrapEach |-> << >>, wrapEach |-> << >>],
      [unwrapOuter |-> << >>, wrapOuter |-> <<Elem("list")>>,
       unwrapEach |-> << >>, wrapEach |-> <<Elem("listItem")>>],
      [unwrapOuter |-> << >>, wrapOuter |-> << >>,
       unwrapEach |-> <<Elem("paragraph")>>, wrapEach |-> <<ElemL("heading", 2)>>],
      [unwrapOuter |-> <<Elem("list")>>, wrapOuter |-> << >>,
       unwrapEach |-> << >>, wrapEach |-> << >>],
      [unwrapOuter |-> <<ElemL("heading", 2)>>, wrapOuter |-> <<Elem("paragraph")>>,
       unwrapEach |-> << >>, wrapEach |-> << >>] }

MaxCalls == 3

\* the optional boolean argument: omitted, true, false
Flags == {Undefined, Some(TRUE), Some(FALSE)}

MaxQueryLen == 1

\* ranges to translate: collapsed, forwards and backwards
QueryRanges(d) ==
    { Range(q[1], q[2]) :
        q \in {q \in Offsets(d) \X Offsets(d) :
                  q[1] - q[2] <= MaxQueryLen /\ q[2] - q[1] <= MaxQueryLen} }

\* the constructors of the two transactions one of which is marked as applied
\* before a rebase
MarkedPairs == {<<"newFromRemoval", "newFromInsertion">>}

MaxRetain == 2

ReplaceInputs ==
    \* removeLength, insert and insertMetadata of a direct pushReplace call
    { [removeLength |-> 0, insert |-> <<Char("x")>>, insertMetadata |-> Undefined],
      [removeLength |-> 0, insert |-> <<Char("x")>>, insertMetadata |-> Some(<<<<"n1">>>>)],
      [removeLength |-> 1, insert |-> << >>, insertMetadata |-> Undefined],
      [removeLength |-> 1, insert |-> <<Char("x")>>, insertMetadata |-> Undefined],
      [removeLength |-> 2, insert |-> << >>, insertMetadata |-> Undefined],
      [removeLength |-> 0, insert |-> << >>, insertMetadata |-> Undefined] }

----------------------------------------------------------------------------
(* The state machine *)

NoReverse == [status |-> "none", once |-> Undefined, twice |-> Undefined]

NoOnto == [slot |-> "", startmost |-> FALSE, result |-> NoResult]

EmptyTx == Transaction(<< >>)

NoArgs == [none |-> TRUE]

NoOut == [op |-> "none"]

InitWith(docs) ==
    /\ doc \in docs
    /\ txA = EmptyTx
    /\ txB = EmptyTx
    /\ srcA = ""
    /\ srcB = ""
    /\ raised = ""
    /\ rebased = NoResult
    /\ onto = NoOnto
    /\ rev = NoReverse
    /\ btx = NewBuilder
    /\ calls = 0
    /\ args = NoArgs
    /\ out = NoOut
    /\ store = UNION {doc.data[i].ann : i \in 1..Len(doc.data)}

InitCommon == InitWith(Docs)

\* A constructor call filling slot A, then slot B: the transaction it returns
\* fills the slot, or the error it raises is recorded and ends the scenario.
Empty(slot) ==
    /\ raised = ""
    /\ IF slot = "A" THEN srcA = "" ELSE srcA # "" /\ srcB = ""

\* a constructor that never touches the store
storeUntouched(name, call, s) == s

\* doc.getStore().index( annotation ), the first thing newFromAnnotation does;
\* no other constructor of these reads or writes the store
storeAfter(name, call, s) ==
    IF name = "newFromAnnotation" THEN indexed(s, call.args.annotation) ELSE s

Construct(slot, name, call) ==
    /\ raised' = call.b.err
    /\ args' = IF mode = "single" THEN call.args ELSE args
    /\ IF call.b.err # ""
       THEN UNCHANGED <<txA, txB, srcA, srcB>>
       ELSE IF slot = "A"
            THEN /\ txA' = Transaction(call.b.ops)
                 /\ srcA' = name
                 /\ UNCHANGED <<txB, srcB>>
            ELSE /\ txB' = Transaction(call.b.ops)
                 /\ srcB' = name
                 /\ UNCHANGED <<txA, srcA>>
    /\ store' = storeAfter(name, call, store)
    /\ UNCHANGED <<doc, rebased, onto, rev, btx, calls, out, mode>>

Slots ==
    IF mode = "rebase" THEN {"A", "B"}
    ELSE IF mode \in {"single", "query"} THEN {"A"}
    ELSE {}

\* What each constructor returns or raises on each document, over the inputs
\* drawn from the bounded sets: the arguments of the call and the outcome b.
insertionsOf ==
    [d \in Docs |->
        {[args |-> [offset |-> offset, data |-> data],
          b |-> newFromInsertion(d, offset, data)] :
            offset \in Offsets(d), data \in InsertData}]

removalsOf ==
    [d \in RemovalDocs |->
        {[args |-> [range |-> range, removeMetadata |-> removeMetadata],
          b |-> newFromRemoval(d, range, removeMetadata)] :
            range \in Ranges(d) \cup WholeRanges(d) \cup AcrossUndeletable(d),
            removeMetadata \in BOOLEAN}]

replacementsOf ==
    [d \in Docs |->
        {[args |-> [range |-> range, data |-> data],
          b |-> newFromReplacement(d, range, data, FALSE)] :
            range \in Ranges(d), data \in InsertData}]

attributeChangesOf ==
    [d \in Docs |->
        {[args |-> [offset |-> offset, level |-> level],
          b |-> newFromAttributeChanges(d, offset, Some(level))] :
            offset \in 0..(getLength(d) - 1), level \in Levels}]

annotationsOf ==
    [d \in AnnotationDocs |->
        {[args |-> [range |-> range, method |-> method, annotation |-> annotation],
          b |-> newFromAnnotation(d, range, method, annotation)] :
            range \in Ranges(d), method \in {"set", "clear"},
            annotation \in Annotations}]

metadataInsertionsOf ==
    [d \in Docs |->
        {[args |-> [offset |-> offset, index |-> index, newElements |-> newElements],
          b |-> newFromMetadataInsertion(d, offset, index, newElements)] :
            offset \in Offsets(d), index \in MetaIndexes,
            newElements \in MetaElements}]

metadataRemovalsOf ==
    [d \in Docs |->
        {[args |-> [offset |-> offset, range |-> range],
          b |-> newFromMetadataRemoval(d, offset, range)] :
            offset \in Offsets(d), range \in MetaRanges}]

metadataElementReplacementsOf ==
    [d \in Docs |->
        {[args |-> [offset |-> offset, index |-> index],
          b |-> newFromMetadataElementReplacement(d, offset, index, "n2")] :
            offset \in Offsets(d), index \in MetaIndexes}]

contentBranchConversionsOf ==
    [d \in Docs |->
        {[args |-> [range |-> range, type |-> type, attr |-> attr],
          b |-> newFromContentBranchConversion(d, range, type, attr)] :
            range \in Ranges(d), type \in ConversionTypes,
            attr \in ConversionAttrs}]

wrapsOf ==
    [d \in WrapDocs |->
        {[args |-> [range |-> range, wrap |-> w],
          b |-> newFromWrap(d, range, w.unwrapOuter, w.wrapOuter, w.unwrapEach,
                            w.wrapEach)] :
            range \in NodeRanges(d), w \in WrapInstructions}]

insideWrapsOf ==
    [d \in WrapDocs |->
        {[args |-> [range |-> range, wrap |-> w],
          b |-> newFromWrap(d, range, w.unwrapOuter, w.wrapOuter, w.unwrapEach,
                            w.wrapEach)] :
            range \in InsideRanges(d), w \in WrapInstructions}]

documentInsertionsOf ==
    [d \in ItemDocs |->
        {[args |-> [offset |-> offset, newDoc |-> newDoc, newDocRange |-> newDocRange],
          b |-> newFromDocumentInsertion(d, offset, newDoc, newDocRange)] :
            offset \in Offsets(d), newDoc \in NewDocs, newDocRange \in NewDocRanges}]

NewFromInsertion ==
    \E slot \in {x \in Slots : Empty(x)}, call \in insertionsOf[doc] :
        Construct(slot, "newFromInsertion", call)

NewFromRemoval ==
    \E slot \in {x \in Slots : Empty(x)}, call \in removalsOf[doc] :
        Construct(slot, "newFromRemoval", call)

NewFromReplacement ==
    \E slot \in {x \in Slots : Empty(x)}, call \in replacementsOf[doc] :
        Construct(slot, "newFromReplacement", call)

NewFromAttributeChanges ==
    \E slot \in {x \in Slots : Empty(x)}, call \in attributeChangesOf[doc] :
        Construct(slot, "newFromAttributeChanges", call)

NewFromAnnotation ==
    \E slot \in {x \in Slots : Empty(x)}, call \in annotationsOf[doc] :
        Construct(slot, "newFromAnnotation", call)

NewFromMetadataInsertion ==
    \E slot \in {x \in Slots : Empty(x)}, call \in metadataInsertionsOf[doc] :
        Construct(slot, "newFromMetadataInsertion", call)

NewFromMetadataRemoval ==
    \E slot \in {x \in Slots : Empty(x)}, call \in metadataRemovalsOf[doc] :
        Construct(slot, "newFromMetadataRemoval", call)

NewFromMetadataElementReplacement ==
    \E slot \in {x \in Slots : Empty(x)}, call \in metadataElementReplacementsOf[doc] :
        Construct(slot, "newFromMetadataElementReplacement", call)

NewFromContentBranchConversion ==
    \E slot \in {x \in Slots : Empty(x)}, call \in contentBranchConversionsOf[doc] :
        Construct(slot, "newFromContentBranchConversion", call)

NewFromWrap ==
    \E slot \in {x \in Slots : Empty(x)}, call \in wrapsOf[doc] :
        Construct(slot, "newFromWrap", call)

\* newFromWrap over a range that ends before the element around it does
NewFromWrapInside ==
    \E slot \in {x \in Slots : Empty(x)}, call \in insideWrapsOf[doc] :
        Construct(slot, "newFromWrap", call)

NewFromDocumentInsertion ==
    \E slot \in {x \in Slots : Empty(x)}, call \in documentInsertionsOf[doc] :
        Construct(slot, "newFromDocumentInsertion", call)

Constructors ==
    \/ NewFromInsertion
    \/ NewFromRemoval
    \/ NewFromReplacement
    \/ NewFromAttributeChanges
    \/ NewFromAnnotation
    \/ NewFromMetadataInsertion
    \/ NewFromMetadataRemoval
    \/ NewFromMetadataElementReplacement
    \/ NewFromContentBranchConversion
    \/ NewFromWrap

Reversed ==
    /\ mode \in {"single", "query"}
    /\ srcA # ""
    /\ out = NoOut
    /\ rev.status = "none"
    /\ rev' = [status |-> "once", once |-> Some(reversed(txA)), twice |-> Undefined]
    /\ UNCHANGED <<doc, txA, txB, srcA, srcB, raised, rebased, onto, btx, calls, args, out, store, mode>>

ReversedAgain ==
    /\ rev.status = "once"
    /\ rev' = [rev EXCEPT !.status = "twice", !.twice = Some(reversed(rev.once[1]))]
    /\ UNCHANGED <<doc, txA, txB, srcA, srcB, raised, rebased, onto, btx, calls, args, out, store, mode>>

\* a transaction handed to a rebase, after the call: the retain lengths are
\* adjusted in place on the clone, which reaches the transaction itself
\* only if the clone shares its operations
afterRebase(tx, returned) ==
    IF copy(tx.operations).shared /\ returned # Undefined
    THEN [tx EXCEPT !.operations = returned[1].operations]
    ELSE tx

\* ve.dm.Transaction.rebaseTransactions( txA, txB )
RebaseTransactions ==
    /\ srcA # "" /\ srcB # ""
    /\ rebased.status = "none"
    /\ onto.slot = ""
    /\ rebased' = rebaseTransactions(txA, txB)
    /\ txA' = afterRebase(txA, rebased'.a)
    /\ txB' = afterRebase(txB, rebased'.b)
    /\ UNCHANGED <<doc, srcA, srcB, raised, onto, rev, btx, calls, args, out, store, mode>>

\* the two clones the rebase under rebasedOnto adjusts, txA's first
ontoPair(slot, startmost) ==
    IF (slot = "A") = startmost
    THEN rebaseTransactions(txA, txB)
    ELSE [rebaseTransactions(txB, txA) EXCEPT !.a = rebaseTransactions(txB, txA).b,
                                              !.b = rebaseTransactions(txB, txA).a]

\* txA.rebasedOnto( txB, startmost ) or txB.rebasedOnto( txA, startmost )
RebasedOnto ==
    /\ srcA # "" /\ srcB # ""
    /\ rebased.status = "none"
    /\ onto.slot = ""
    /\ \E startmost \in BOOLEAN, slot \in {"A", "B"} :
        /\ onto' = [slot |-> slot, startmost |-> startmost,
                    result |-> rebasedOnto(IF slot = "A" THEN txA ELSE txB,
                                           IF slot = "A" THEN txB ELSE txA,
                                           startmost)]
        /\ txA' = afterRebase(txA, ontoPair(slot, startmost).a)
        /\ txB' = afterRebase(txB, ontoPair(slot, startmost).b)
    /\ UNCHANGED <<doc, srcA, srcB, raised, rebased, rev, btx, calls, args, out, store, mode>>

\* txA.markAsApplied()
MarkAsApplied ==
    /\ mode = "query"
    /\ srcA # ""
    /\ out = NoOut
    /\ rev = NoReverse
    /\ txA' = markAsApplied(txA)
    /\ UNCHANGED <<doc, txB, srcA, srcB, raised, rebased, onto, rev, btx, calls, args, out, store, mode>>

\* markAsApplied() on the transaction under construction
MarkBuilderAsApplied ==
    /\ mode = "builder"
    /\ btx.err = ""
    /\ btx' = markAsApplied(btx)
    /\ UNCHANGED <<doc, txA, txB, srcA, srcB, raised, rebased, onto, rev, calls, args, out, store, mode>>

\* markAsApplied() on one of the two transactions about to be rebased
MarkOneAsApplied ==
    /\ mode = "rebase"
    /\ <<srcA, srcB>> \in MarkedPairs
    /\ rebased.status = "none"
    /\ onto.slot = ""
    /\ \E slot \in {"A", "B"} :
        /\ txA' = IF slot = "A" THEN markAsApplied(txA) ELSE txA
        /\ txB' = IF slot = "B" THEN markAsApplied(txB) ELSE txB
    /\ UNCHANGED <<doc, srcA, srcB, raised, rebased, onto, rev, btx, calls, args, out, store, mode>>

Queried == mode = "query" /\ srcA # "" /\ out = NoOut /\ rev = NoReverse

\* txA.clone()
Clone ==
    /\ Queried
    /\ out' = [op |-> "clone", tx |-> clone(txA), shared |-> copy(txA.operations).shared]
    /\ UNCHANGED <<doc, txA, txB, srcA, srcB, raised, rebased, onto, rev, btx, calls, args, store, mode>>

\* a length adjustment of one retain of the clone, as the rebase makes on the
\* clones it works on; it reaches txA when the two share their operations
ChangeClone ==
    /\ mode = "query"
    /\ out.op = "clone"
    /\ \E i \in {j \in 1..Len(out.tx.operations) : out.tx.operations[j].type = "retain"} :
        /\ out' = [out EXCEPT !.op = "changedClone", !.tx.operations[i].length = @ + 1]
        /\ txA' = IF out.shared
                  THEN [txA EXCEPT !.operations[i].length = @ + 1]
                  ELSE txA
    /\ UNCHANGED <<doc, txB, srcA, srcB, raised, rebased, onto, rev, btx, calls, args, store, mode>>

\* txA.translateOffset( offset, excludeInsertion )
TranslateOffset ==
    /\ Queried
    /\ \E offset \in Offsets(doc), excludeInsertion \in Flags :
        out' = [op |-> "translateOffset", offset |-> offset,
                excludeInsertion |-> excludeInsertion,
                result |-> translateOffset(txA, offset, excludeInsertion)]
    /\ UNCHANGED <<doc, txA, txB, srcA, srcB, raised, rebased, onto, rev, btx, calls, args, store, mode>>

\* txA.translateRange( range, excludeInsertion )
TranslateRange ==
    /\ Queried
    /\ \E range \in QueryRanges(doc), excludeInsertion \in {Undefined, Some(TRUE)} :
        out' = [op |-> "translateRange", range |-> range,
                excludeInsertion |-> excludeInsertion,
                result |-> translateRange(txA, range, excludeInsertion)]
    /\ UNCHANGED <<doc, txA, txB, srcA, srcB, raised, rebased, onto, rev, btx, calls, args, store, mode>>

\* txA.getModifiedRange( doc )
GetModifiedRange ==
    /\ Queried
    /\ out' = [op |-> "getModifiedRange", result |-> getModifiedRange(txA, doc)]
    /\ UNCHANGED <<doc, txA, txB, srcA, srcB, raised, rebased, onto, rev, btx, calls, args, store, mode>>

\* the document txA leaves, the one txA.reversed() applies to
reversedFrom(d, tx) ==
    LET after == Apply(d, tx.operations)
    IN  [data |-> after.data, meta |-> after.meta]

hasInternalList(d) == \E i \in 1..Len(d.data) : d.data[i].type = "internalList"

\* txA.reversed().getModifiedRange( doc ), doc being the document after txA
GetModifiedRangeOfReversed ==
    /\ mode = "query"
    /\ rev.status = "once"
    /\ out = NoOut
    /\ hasInternalList(reversedFrom(doc, txA))
    /\ out' = [op |-> "getModifiedRangeOfReversed",
               result |-> getModifiedRange(rev.once[1], reversedFrom(doc, txA))]
    /\ UNCHANGED <<doc, txA, txB, srcA, srcB, raised, rebased, onto, rev, btx, calls, args, store, mode>>

Queries ==
    \/ Clone
    \/ ChangeClone
    \/ TranslateOffset
    \/ TranslateRange
    \/ GetModifiedRange
    \/ GetModifiedRangeOfReversed

InitQuery == InitCommon /\ mode = "query"

NextQuery == Constructors \/ MarkAsApplied \/ Reversed \/ ReversedAgain \/ Queries

SpecQuery == InitQuery /\ [][NextQuery]_vars

InitTx == InitCommon /\ mode = "single"

NextTx == Constructors \/ Reversed \/ ReversedAgain

SpecTx == InitTx /\ [][NextTx]_vars

\* newFromRemoval alone, also on a document with two undeletable nodes
InitRemoval == InitWith(RemovalDocs) /\ mode = "single"

NextRemoval == NewFromRemoval \/ Reversed \/ ReversedAgain

SpecRemoval == InitRemoval /\ [][NextRemoval]_vars

\* newFromAnnotation alone, also on a document with ignored children
InitAnnotation == InitWith(AnnotationDocs) /\ mode = "single"

NextAnnotation == NewFromAnnotation \/ Reversed \/ ReversedAgain

SpecAnnotation == InitAnnotation /\ [][NextAnnotation]_vars

\* newFromWrap alone, also on the document of its documentation
InitWrap == InitWith(WrapDocs) /\ mode = "single"

NextWrap == NewFromWrap \/ NewFromWrapInside \/ Reversed \/ ReversedAgain

SpecWrap == InitWrap /\ [][NextWrap]_vars

\* newFromDocumentInsertion alone, on a document with internal items
InitDocumentInsertion == InitWith(ItemDocs) /\ mode = "single"

NextDocumentInsertion == NewFromDocumentInsertion \/ Reversed \/ ReversedAgain

SpecDocumentInsertion == InitDocumentInsertion /\ [][NextDocumentInsertion]_vars

InitRebase == InitCommon /\ mode = "rebase"

NextRebase == Constructors \/ RebaseTransactions \/ RebasedOnto

SpecRebase == InitRebase /\ [][NextRebase]_vars

----------------------------------------------------------------------------
(* Builder calls made directly on one transaction under construction *)

RECURSIVE consumed(_, _)
consumed(ops, i) ==
    \* source items the first i ops pass over: retained plus removed
    IF i = 0 THEN 0
    ELSE consumed(ops, i - 1)
         + (IF ops[i].type = "retain" THEN ops[i].length
            ELSE IF ops[i].type = "replace" THEN Len(ops[i].remove)
            ELSE 0)

sourceLength(ops) == consumed(ops, Len(ops))

CanPush == mode = "builder" /\ btx.err = "" /\ calls < MaxCalls

Pushed(b) ==
    /\ btx' = b
    /\ calls' = calls + 1
    /\ raised' = b.err
    /\ UNCHANGED <<doc, txA, txB, srcA, srcB, rebased, onto, rev, args, out, store, mode>>

PushRetain ==
    /\ CanPush
    /\ \E length \in -1..MaxRetain :
        /\ sourceLength(btx.ops) + length <= getLength(doc)
        /\ Pushed(pushRetain(btx, length))

PushRetainMetadata ==
    /\ CanPush
    /\ \E length \in -1..MaxRetain :
        /\ Pushed(pushRetainMetadata(btx, length))

PushReplaceWith(r) ==
    /\ CanPush
    /\ sourceLength(btx.ops) + r.removeLength <= getLength(doc)
    /\ Pushed(pushReplace(btx, doc, sourceLength(btx.ops), r.removeLength, r.insert,
                          r.insertMetadata, Undefined, Undefined))

PushReplace == \E r \in ReplaceInputs : PushReplaceWith(r)

PushReplaceMetadata ==
    /\ CanPush
    /\ \E remove \in {<< >>, <<"m1">>}, insert \in {<< >>, <<"n1">>} :
        Pushed(pushReplaceMetadata(btx, remove, insert))

PushReplaceElementAttributeWith(from, to) ==
    /\ CanPush
    /\ Pushed(pushReplaceElementAttribute(btx, "level", from, to))

PushReplaceElementAttribute ==
    \E from \in Levels, to \in Levels : PushReplaceElementAttributeWith(from, to)

PushAttributeChangesWith(changes, oldLevel) ==
    /\ CanPush
    /\ Pushed(pushAttributeChanges(btx, changes, oldLevel))

PushAttributeChanges ==
    \E changes \in {Undefined} \cup {Some(l) : l \in Levels}, oldLevel \in Levels :
        PushAttributeChangesWith(changes, oldLevel)

PushStartAnnotating ==
    /\ CanPush
    /\ \E method \in {"set", "clear"} : Pushed(pushStartAnnotating(btx, method, 1))

PushStopAnnotating ==
    /\ CanPush
    /\ \E method \in {"set", "clear"} : Pushed(pushStopAnnotating(btx, method, 1))

PushFinalRetain ==
    /\ CanPush
    /\ Pushed(pushFinalRetain(btx, doc, sourceLength(btx.ops), 0))

BuilderCalls ==
    \/ PushRetain
    \/ PushRetainMetadata
    \/ PushReplace
    \/ PushReplaceMetadata
    \/ PushReplaceElementAttribute
    \/ PushAttributeChanges
    \/ PushStartAnnotating
    \/ PushStopAnnotating
    \/ PushFinalRetain

InitBuilder == InitCommon /\ mode = "builder"

SpecBuilder == InitBuilder /\ [][BuilderCalls]_vars

\* the same calls on a document with metadata before adjacent items
InitMetadata == InitWith({DocMetadata}) /\ mode = "builder"

SpecMetadata == InitMetadata /\ [][BuilderCalls]_vars

Init == InitCommon /\ mode \in {"single", "rebase", "builder", "query"}

Next ==
    \/ Constructors
    \/ MarkAsApplied
    \/ MarkBuilderAsApplied
    \/ MarkOneAsApplied
    \/ Reversed
    \/ ReversedAgain
    \/ Queries
    \/ RebaseTransactions
    \/ RebasedOnto
    \/ BuilderCalls

Spec == Init /\ [][Next]_vars

----------------------------------------------------------------------------
(* Properties of rebasing *)

\* Processing a further operation list on the outcome of an earlier one
Then(r, ops) ==
    IF r.err # "" THEN r ELSE Apply([data |-> r.data, meta |-> r.meta], ops)

afterA == Apply(doc, txA.operations)

afterB == Apply(doc, txB.operations)

\* transactionA, then bRebasedOntoA
afterAB == Then(afterA, rebased.b[1].operations)

\* transactionB, then aRebasedOntoB
afterBA == Then(afterB, rebased.a[1].operations)

infoA == getActiveRangeAndLengthDiff(txA)

infoB == getActiveRangeAndLengthDiff(txB)

\* C1: whenever rebaseTransactions( A, B ) on two constructor-built transactions
\* of the same start document returns a pair [ A', B' ], processing A then B'
\* ends without an error in exactly the document data that processing B then
\* A' ends in.
RebaseConverges ==
    rebased.status = "ok" =>
        /\ afterAB.err = ""
        /\ afterBA.err = ""
        /\ afterAB.data = afterBA.data

\* a rebase in which each transaction changes the document length, so that
\* both adjustRetain calls changed an operations list
RebaseConvergesWitness ==
    /\ rebased.status = "ok"
    /\ infoA.diff # 0
    /\ infoB.diff # 0
    /\ rebased.a[1].operations # txA.operations
    /\ rebased.b[1].operations # txB.operations
    /\ afterAB.data = afterBA.data

\* The caller and the argument of the rebasedOnto call the state records
mine == IF onto.slot = "A" THEN txA ELSE txB

theirs == IF onto.slot = "A" THEN txB ELSE txA

\* theirs, then mine.rebasedOnto( theirs, startmost )
afterTheirsMine == Then(Apply(doc, theirs.operations), onto.result.a[1].operations)

\* mine, then theirs.rebasedOnto( mine ): the call in the other direction,
\* made without the startmost argument
afterMineTheirs ==
    Then(Apply(doc, mine.operations), rebasedOnto(theirs, mine, FALSE).a[1].operations)

zeroLengthRange(info) == info.start # Undefined /\ info.start = info.end

\* two inserts in the same place: both active ranges are empty, at one offset
SamePlaceInserts ==
    /\ zeroLengthRange(infoA)
    /\ zeroLengthRange(infoB)
    /\ infoA.start = infoB.start

EndmostBothWays ==
    /\ onto.slot # ""
    /\ ~onto.startmost
    /\ onto.result.status = "ok"

sameDocument(r1, r2) ==
    /\ r1.err = ""
    /\ r2.err = ""
    /\ r1.data = r2.data
    /\ r1.meta = r2.meta

\* C2 as amended: for every non-conflicting pair A, B that is not a pair of
\* inserts in the same place, processing A then B.rebasedOnto( A ) ends in the
\* same document as processing B then A.rebasedOnto( B ), both calls made
\* without the startmost argument.
OntoConvergesApartFromSamePlaceInserts ==
    EndmostBothWays /\ ~SamePlaceInserts => sameDocument(afterTheirsMine, afterMineTheirs)

\* a pair of length-changing transactions rebased endmost in both directions,
\* one of them an insert, the other active from the insert's offset on
OntoConvergesWitness ==
    /\ EndmostBothWays
    /\ ~SamePlaceInserts
    /\ zeroLengthRange(infoA)
    /\ infoA.start = infoB.start
    /\ infoB.diff # 0
    /\ sameDocument(afterTheirsMine, afterMineTheirs)

\* C2 as stated: the convergence of the two endmost rebasedOnto calls for every
\* non-conflicting pair, two insertions at the same offset included.
OntoConvergesForEveryPair ==
    EndmostBothWays => sameDocument(afterTheirsMine, afterMineTheirs)

Overlap ==
    /\ infoA.start # Undefined
    /\ infoB.start # Undefined
    /\ ~(infoA.end[1] <= infoB.start[1])
    /\ ~(infoB.end[1] <= infoA.start[1])

\* C3 as stated: rebaseTransactions( A, B ) returns [ null, null ] exactly when
\* both active ranges are defined and overlap, and returns two transactions in
\* every other case.
ConflictExactlyOnOverlap ==
    rebased.status # "none" =>
        /\ rebased.status = "conflict" <=> Overlap
        /\ ~Overlap => rebased.status = "ok"

isPureInsertion(tx) ==
    /\ \E i \in 1..Len(tx.operations) :
        /\ tx.operations[i].type = "replace"
        /\ tx.operations[i].remove = << >>
        /\ tx.operations[i].insert # << >>
        /\ \A j \in 1..Len(tx.operations) : j # i => tx.operations[j].type = "retain"

RECURSIVE insertedFrom(_, _)
insertedFrom(ops, i) ==
    IF i > Len(ops) THEN << >>
    ELSE IF ops[i].type = "replace" THEN ops[i].insert \o insertedFrom(ops, i + 1)
    ELSE insertedFrom(ops, i + 1)

insertedBy(tx) == insertedFrom(tx.operations, 1)

\* the start document with X's content and then Y's inserted at the offset
inOrder(X, Y) == Splice(doc.data, infoA.start[1], 0, insertedBy(X) \o insertedBy(Y))

InsertionsAtOneOffset ==
    /\ srcA # ""
    /\ srcB # ""
    /\ isPureInsertion(txA)
    /\ isPureInsertion(txB)
    /\ infoA.start = infoB.start

\* C4: for two pure insertions X and Y at one offset, rebaseTransactions( X, Y )
\* is no conflict and puts X's content immediately before Y's in both
\* application orders, and what X.rebasedOnto( Y, startmost ) returns puts X's
\* content first when startmost is true and Y's content first when it is false.
SamePlaceOrderFixedBySlot ==
    InsertionsAtOneOffset =>
        /\ rebased.status # "none" =>
            /\ rebased.status = "ok"
            /\ afterAB.err = "" /\ afterAB.data = inOrder(txA, txB)
            /\ afterBA.err = "" /\ afterBA.data = inOrder(txA, txB)
        /\ onto.slot # "" =>
            /\ onto.result.status = "ok"
            /\ afterTheirsMine.err = ""
            /\ afterTheirsMine.data = IF onto.startmost THEN inOrder(mine, theirs)
                                      ELSE inOrder(theirs, mine)

\* X.rebasedOnto( Y, true ) for two insertions of different content at one offset
SamePlaceOrderWitness ==
    /\ InsertionsAtOneOffset
    /\ insertedBy(txA) # insertedBy(txB)
    /\ onto.slot = "A"
    /\ onto.startmost
    /\ afterTheirsMine.data = inOrder(txA, txB)

BothKeepBalance ==
    /\ Balanced(doc.data)
    /\ afterA.err = "" /\ Balanced(afterA.data)
    /\ afterB.err = "" /\ Balanced(afterB.data)

\* C5: when A and B each take the balanced start document to a balanced
\* document and rebaseTransactions( A, B ) returns [ A', B' ], processing A then
\* B' and processing B then A' each end, without an error, in a balanced
\* document.
RebaseKeepsBalance ==
    rebased.status = "ok" /\ BothKeepBalance =>
        /\ afterAB.err = "" /\ Balanced(afterAB.data)
        /\ afterBA.err = "" /\ Balanced(afterBA.data)

hasElement(data) == \E i \in 1..Len(data) : isElement(data[i])

\* a rebase of two transactions that each insert or remove element markers
RebaseKeepsBalanceWitness ==
    /\ rebased.status = "ok"
    /\ BothKeepBalance
    /\ infoA.diff < 0
    /\ infoB.diff > 0
    /\ afterA.data # afterAB.data
    /\ hasElement(insertedBy(txB))
    /\ srcA = "newFromRemoval"
    /\ Len(rebased.b[1].operations) # Len(txB.operations)
    /\ Balanced(afterAB.data)

----------------------------------------------------------------------------
(* Properties of reversed() *)

\* t, then t.reversed()
afterUndo == Then(afterA, rev.once[1].operations)

\* C6: for every transaction t a constructor returns on document d, processing
\* t on d and then t.reversed() on the outcome ends without an error in d's
\* data and d's metadata.
ReversedRestores ==
    rev.once # Undefined =>
        /\ afterUndo.err = ""
        /\ afterUndo.data = doc.data
        /\ afterUndo.meta = doc.meta

\* the undo of a transaction that changed both the data and the metadata
ReversedRestoresWitness ==
    /\ rev.once # Undefined
    /\ afterA.err = ""
    /\ afterA.data # doc.data
    /\ afterA.meta # doc.meta
    /\ afterUndo.data = doc.data
    /\ afterUndo.meta = doc.meta

\* C7: t.reversed() has exactly one operation per operation of t,
\* t.reversed().reversed() equals t operation for operation and field for
\* field, and a reversed() call leaves the operations of t as they were.
ReversedIsInvolution ==
    /\ [](/\ rev.once # Undefined =>
                Len(rev.once[1].operations) = Len(txA.operations)
          /\ rev.twice # Undefined =>
                /\ Len(rev.twice[1].operations) = Len(txA.operations)
                /\ \A i \in 1..Len(txA.operations) :
                    rev.twice[1].operations[i] = txA.operations[i])
    /\ [][Reversed \/ ReversedAgain => txA' = txA]_vars

\* t.reversed().reversed() of a transaction with an annotate operation, whose
\* reversal differs from it
ReversedIsInvolutionWitness ==
    /\ rev.twice # Undefined
    /\ rev.once[1].operations # txA.operations
    /\ rev.twice[1].operations = txA.operations
    /\ \E i \in 1..Len(txA.operations) : txA.operations[i].type = "annotate"

----------------------------------------------------------------------------
(* Properties of the operation lists *)

\* the inputs on which a metadata constructor returns at its no-op branch
NoOpInput ==
    \/ srcA = "newFromMetadataInsertion" /\ args.newElements = << >>
    \/ srcA = "newFromMetadataRemoval" /\ args.range.start = args.range.end

Constructed == mode = "single" /\ srcA # ""

RECURSIVE wholeElementsFrom(_, _, _, _)
wholeElementsFrom(data, i, end, depth) ==
    \* the items from offset i to end are complete elements, one after another
    IF i >= end THEN depth = 0
    ELSE IF isOpen(data[i + 1]) THEN wholeElementsFrom(data, i + 1, end, depth + 1)
    ELSE IF isClose(data[i + 1])
         THEN depth > 0 /\ wholeElementsFrom(data, i + 1, end, depth - 1)
    ELSE depth > 0 /\ wholeElementsFrom(data, i + 1, end, depth)

\* newFromWrap told to wrap or unwrap each top-level element of a range that
\* is not a sequence of whole elements
EachOverLooseItems ==
    /\ srcA = "newFromWrap"
    /\ args.wrap.wrapEach # << >> \/ args.wrap.unwrapEach # << >>
    /\ ~wholeElementsFrom(doc.data, args.range.start, args.range.end, 0)

\* C8 as amended: for every constructor and every input it accepts without
\* raising, the retain lengths plus the replace.remove lengths of the returned
\* operation list add up to the source data length, with two exceptions: on
\* the inputs on which a metadata constructor changes nothing the list is
\* empty, and nothing is stated for newFromWrap with wrapEach or unwrapEach
\* given over a range that is not a sequence of whole elements.
ConsumesSourceUnlessNoOp ==
    Constructed /\ ~EachOverLooseItems =>
        IF NoOpInput THEN txA.operations = << >>
        ELSE sourceLength(txA.operations) = getLength(doc)

\* a metadata insertion that changes something, past the first offset
ConsumesSourceWitness ==
    /\ Constructed
    /\ srcA = "newFromMetadataInsertion"
    /\ args.newElements # << >>
    /\ args.offset > 0
    /\ args.offset < getLength(doc)
    /\ sourceLength(txA.operations) = getLength(doc)

\* C8 as stated: the sum equals the source data length for every constructor
\* and accepted input, the no-op inputs of the metadata constructors included.
ConsumesSourceAlways ==
    Constructed => sourceLength(txA.operations) = getLength(doc)

Removed == Constructed /\ srcA = "newFromRemoval"

covered == selectNodesCovered(doc, args.range.start, args.range.end)

\* C9: newFromRemoval on a balanced document, for a non-collapsed range with a
\* non-empty 'covered' selection, returns a transaction that ends, without an
\* error, in a balanced document.
RemovalKeepsBalance ==
    /\ Removed
    /\ Balanced(doc.data)
    /\ args.range.start # args.range.end
    /\ Len(covered) > 0
    => afterA.err = "" /\ Balanced(afterA.data)

\* the merge case: the first and the last covered node are different nodes
\* that can be merged, and the closing marker of the one goes with the opening
\* marker of the other
RemovalKeepsBalanceWitness ==
    /\ Removed
    /\ Len(covered) > 1
    /\ covered[1].node # covered[Len(covered)].node
    /\ canBeMergedWith(doc.data, covered[1].node, covered[Len(covered)].node)
    /\ \E i \in 1..Len(txA.operations) :
        /\ txA.operations[i].type = "replace"
        /\ \E j \in 1..Len(txA.operations[i].remove) :
            /\ j < Len(txA.operations[i].remove)
            /\ isClose(txA.operations[i].remove[j])
            /\ isOpen(txA.operations[i].remove[j + 1])
    /\ Balanced(afterA.data)

positiveRetains(ops) ==
    \A i \in 1..Len(ops) :
        ops[i].type \in {"retain", "retainMetadata"} => ops[i].length >= 1

positiveIn(result) ==
    /\ result.a # Undefined => positiveRetains(result.a[1].operations)
    /\ result.b # Undefined => positiveRetains(result.b[1].operations)

\* C10: every retain and retainMetadata operation has length >= 1 in every
\* operation list a sequence of builder calls reaches, a constructor returns,
\* or rebaseTransactions (also through rebasedOnto) returns.
RetainsArePositive ==
    /\ positiveRetains(btx.ops)
    /\ positiveRetains(txA.operations)
    /\ positiveRetains(txB.operations)
    /\ positiveIn(rebased)
    /\ positiveIn(onto.result)

\* a rebase in which adjustRetain deleted a retain whose length reached 0
RetainsArePositiveWitness ==
    /\ rebased.status = "ok"
    /\ Len(rebased.a[1].operations) < Len(txA.operations)
    /\ positiveRetains(rebased.a[1].operations)

\* ------------------------------------------------------------------
\* Properties of the builder's op list
\* ------------------------------------------------------------------

replaceFollowsReplaceMetadata(ops) ==
    \E i \in 2..Len(ops) :
        ops[i].type = "replace" /\ ops[i - 1].type = "replaceMetadata"

keepsFlag(before, after) == hasBeenApplied(before) => hasBeenApplied(after)

\* C12: the applied flag is a latch. A newly constructed transaction is not
\* applied; markAsApplied sets the flag; and no later call (clone, reversed,
\* translateOffset, translateRange, getModifiedRange, a builder push,
\* rebaseTransactions or rebasedOnto with the transaction as receiver or as
\* argument) resets it.
AppliedIsLatch ==
    [][/\ keepsFlag(txA, txA')
       /\ keepsFlag(txB, txB')
       /\ keepsFlag(btx, btx')
       /\ (srcA = "" /\ srcA' # "" => ~hasBeenApplied(txA'))
       /\ (srcB = "" /\ srcB' # "" => ~hasBeenApplied(txB'))
       /\ (MarkAsApplied => hasBeenApplied(txA'))
       /\ (MarkBuilderAsApplied => hasBeenApplied(btx'))
       /\ (MarkOneAsApplied => hasBeenApplied(txA') \/ hasBeenApplied(txB'))]_vars

AppliedIsLatchWitness ==
    /\ mode = "rebase"
    /\ hasBeenApplied(txB)
    /\ ~hasBeenApplied(txA)
    /\ onto.slot = "A"
    /\ onto.result.status = "ok"

RECURSIVE replacedFrom(_, _, _, _)
replacedFrom(ops, i, cursor, target) ==
    \* the source regions the replace ops remove, how much each inserts, and
    \* the offset at which it does in the document after the transaction
    IF i > Len(ops) THEN {}
    ELSE IF ops[i].type = "replace"
    THEN {[start |-> cursor, end |-> cursor + Len(ops[i].remove),
           inserted |-> Len(ops[i].insert), at |-> target]}
         \cup replacedFrom(ops, i + 1, cursor + Len(ops[i].remove),
                           target + Len(ops[i].insert))
    ELSE IF ops[i].type = "retain"
    THEN replacedFrom(ops, i + 1, cursor + ops[i].length, target + ops[i].length)
    ELSE replacedFrom(ops, i + 1, cursor, target)

replaced(tx) == replacedFrom(tx.operations, 1, 0, 0)

insideRemoved(tx, offset) ==
    \E r \in replaced(tx) : r.start < offset /\ offset < r.end

retainsAndReplaces(tx) ==
    \A i \in 1..Len(tx.operations) : tx.operations[i].type \in {"retain", "replace"}

thereAndBack(tx, offset) ==
    translateOffset(reversed(tx), translateOffset(tx, offset, Undefined), Undefined)

translated == out.op = "translateOffset" /\ out.excludeInsertion = Undefined

atRemovalStart(tx, offset) ==
    \E r \in replaced(tx) : r.start = offset /\ r.start < r.end /\ r.inserted = 0

atRemovalEnd(tx, offset) ==
    \E r \in replaced(tx) : r.end = offset /\ r.start < r.end /\ r.inserted = 0

\* C14: translating a source offset through a transaction and then through
\* its reversal gives the offset back, for every offset that is neither
\* strictly inside a removed region nor at the start of a region that a
\* replace removes without inserting anything (the other boundaries of
\* replace operations included).
RoundTripOutsideRemovals ==
    translated /\ ~insideRemoved(txA, out.offset) /\ ~atRemovalStart(txA, out.offset)
        => thereAndBack(txA, out.offset) = out.offset

RoundTripOutsideRemovalsWitness ==
    /\ translated
    /\ retainsAndReplaces(txA)
    /\ atRemovalEnd(txA, out.offset)
    /\ out.result < out.offset
    /\ thereAndBack(txA, out.offset) = out.offset

\* C14 as stated: the round trip for every offset not strictly inside a
\* removed region of a transaction of retain and replace operations
RoundTripAtEveryBoundary ==
    translated /\ retainsAndReplaces(txA) /\ ~insideRemoved(txA, out.offset)
        => thereAndBack(txA, out.offset) = out.offset

rangeTranslated == out.op = "translateRange" /\ out.excludeInsertion = Undefined

insertionsAt(tx, offset) ==
    {r \in replaced(tx) : r.start = offset /\ r.end = offset /\ r.inserted > 0}

endpointsOf(tx, range) ==
    [start |-> translateOffset(tx, range.start, Some(TRUE)),
     end |-> translateOffset(tx, range.end, Some(FALSE))]

orientedAs(range, result, ends) ==
    IF range.from > range.to
    THEN result.from = ends.end /\ result.to = ends.start /\ result.from >= result.to
    ELSE result.from = ends.start /\ result.to = ends.end /\ result.from <= result.to

\* C15: with excludeInsertion omitted, translateRange translates the start
\* of the range as translateOffset(start, true) and its end as
\* translateOffset(end, false), so that what is inserted exactly at the
\* start or exactly at the end of a forward range lies inside the result;
\* a backwards range (from > to) gives the same two translated endpoints in
\* backwards order (from the translated end to the translated start).
TranslateRangeGrowsOverInsertions ==
    rangeTranslated =>
        /\ orientedAs(out.range, out.result, endpointsOf(txA, out.range))
        /\ out.range.from <= out.range.to =>
            \A r \in insertionsAt(txA, out.range.start) \cup insertionsAt(txA, out.range.end) :
                out.result.start <= r.at /\ r.at + r.inserted <= out.result.end

TranslateRangeGrowsOverInsertionsWitness ==
    /\ rangeTranslated
    /\ out.range.from < out.range.to
    /\ insertionsAt(txA, out.range.end) # {}
    /\ out.result.end - out.result.start > out.range.end - out.range.start

modifies(op) == op.type \notin {"retain", "retainMetadata"}

beginsAt(tx, i) == consumed(tx.operations, i - 1)

\* the transaction without the operations that follow its last modifying
\* operation beginning at or before the bound
upTo(tx, bound) ==
    LET kept == {i \in 1..Len(tx.operations) :
                    modifies(tx.operations[i]) /\ beginsAt(tx, i) <= bound}
    IN  [tx EXCEPT !.operations =
            SubSeq(tx.operations, 1,
                   IF kept = {} THEN 0 ELSE CHOOSE i \in kept : \A j \in kept : j <= i)]

modifiedRange == out.op = "getModifiedRange"

listStart == internalListOuterStart(doc)

\* C16: getModifiedRange ignores the operations of a constructed transaction
\* that begin strictly after the outer start of the internal list node: a
\* transaction whose modifying operations all begin after that offset yields
\* null, and such operations never move the start or the end of the range.
\* An operation beginning exactly at the outer start is counted.
ModifiedRangeIgnoresInternalList ==
    modifiedRange =>
        /\ out.result = getModifiedRange(upTo(txA, listStart), doc)
        /\ upTo(txA, listStart).operations = << >> => out.result = Undefined

ModifiedRangeIgnoresInternalListWitness ==
    /\ modifiedRange
    /\ out.result = Undefined
    /\ \E i \in 1..Len(txA.operations) :
        /\ txA.operations[i].type = "replace"
        /\ beginsAt(txA, i) > listStart

\* C16 as stated: the operations beginning at or after the outer start of
\* the internal list node are ignored
ModifiedRangeIgnoresFromOuterStart ==
    modifiedRange =>
        /\ out.result = getModifiedRange(upTo(txA, listStart - 1), doc)
        /\ upTo(txA, listStart - 1).operations = << >> => out.result = Undefined

\* ------------------------------------------------------------------
\* Properties of the constructors
\* ------------------------------------------------------------------

wholeRemoval ==
    /\ Constructed
    /\ srcA = "newFromRemoval"
    /\ args.range.start = 0
    /\ args.range.end >= listStart

\* the data before the internal list node (all of it when there is none)
bodyOf(data) ==
    LET lists == {i \in 1..Len(data) : data[i].type = "internalList"}
    IN  IF lists = {} THEN data
        ELSE SubSeq(data, 1, (CHOOSE i \in lists : \A j \in lists : i <= j) - 1)

emptyParagraphAt(data, offset) ==
    /\ offset + 2 <= Len(data)
    /\ data[offset + 1].type = "paragraph"
    /\ data[offset + 2].type = "/paragraph"

insertsEmptyParagraph(tx) ==
    \E r \in replaced(tx) :
        r.inserted = 2 /\ emptyParagraphAt(afterA.data, r.at)

\* C17: newFromRemoval with range.start = 0 and range.end at or after the
\* outer start of the internal list inserts an empty paragraph where the
\* removal ended, so that the data before the internal list is not empty
\* after the transaction.
WholeRemovalLeavesParagraph ==
    wholeRemoval =>
        /\ afterA.err = ""
        /\ insertsEmptyParagraph(txA)
        /\ bodyOf(afterA.data) # << >>

\* a step in which a constructor returned (a slot was filled) or raised
constructorStep ==
    /\ mode' \in {"single", "rebase", "query"}
    /\ srcA' # srcA \/ srcB' # srcB \/ raised' # raised

annotationStep == srcA = "" /\ srcA' = "newFromAnnotation"

cell == doc.meta[args.offset + 1]

metadataRemovalCalled == mode = "single" /\ DOMAIN args = {"offset", "range"}

metadataReplacementCalled == mode = "single" /\ DOMAIN args = {"offset", "index"}

metadataInsertionCalled == mode = "single" /\ DOMAIN args = {"offset", "index", "newElements"}

noTransaction(message) == raised = message /\ srcA = ""

removalChecked ==
    metadataRemovalCalled =>
        /\ Len(cell) = 0 => noTransaction("Cannot remove metadata from empty list")
        /\ Len(cell) > 0 /\ (args.range.start < 0 \/ args.range.end > Len(cell))
            => noTransaction("Range out of bounds")

replacementChecked ==
    metadataReplacementCalled /\ args.index >= Len(cell)
        => noTransaction("Metadata index out of bounds")

indexOutside == args.index < 0 \/ args.index > Len(cell)

\* C19: newFromMetadataRemoval raises 'Cannot remove metadata from empty list'
\* when the cell at offset has no elements and 'Range out of bounds' when
\* range.start < 0 or range.end > the cell length; newFromMetadataElementReplacement
\* raises 'Metadata index out of bounds' when index >= the cell length;
\* newFromMetadataInsertion has no check of its own: with elements to insert
\* and an index outside [0, cell length] it raises the 'cannot retain
\* backwards' error of pushRetainMetadata, and with nothing to insert it
\* returns the empty transaction whatever the index. No transaction is
\* returned when an error is raised.
MetadataBoundsChecked ==
    /\ removalChecked
    /\ replacementChecked
    /\ metadataInsertionCalled /\ indexOutside =>
        IF args.newElements = << >>
        THEN raised = "" /\ srcA = "newFromMetadataInsertion" /\ txA.operations = << >>
        ELSE noTransaction("Invalid retain length, cannot retain backwards")

MetadataBoundsCheckedWitness ==
    /\ metadataInsertionCalled
    /\ args.index > Len(cell)
    /\ Len(cell) > 0
    /\ args.newElements # << >>
    /\ raised # ""

\* C19 as stated: newFromMetadataInsertion raises whenever index lies outside
\* [0, cell length]
MetadataBoundsAlwaysChecked ==
    /\ removalChecked
    /\ replacementChecked
    /\ metadataInsertionCalled /\ indexOutside => raised # "" /\ srcA = ""

wrapCalled == mode = "single" /\ DOMAIN args = {"range", "wrap"}

OuterTooLong == "unwrapOuter is longer than the data preceding the range"

OuterMismatch == "Element in unwrapOuter does not match"

EachMismatch == "Element in unwrapEach does not match"

\* the items before the start of the range that unwrapOuter is to remove
preceding == getData(doc, args.range.start - Len(args.wrap.unwrapOuter), args.range.start)

differs(found, expected) ==
    \E i \in 1..Len(found) : found[i].type # expected[i].type

outerDiffers ==
    /\ args.range.start >= Len(args.wrap.unwrapOuter)
    /\ differs(preceding, args.wrap.unwrapOuter)

\* openings less closings among the items of the range before offset i
depthAt(i) ==
    Cardinality({j \in args.range.start..(i - 1) : isOpen(doc.data[j + 1])})
    - Cardinality({j \in args.range.start..(i - 1) : isClose(doc.data[j + 1])})

topLevelStarts ==
    {i \in args.range.start..(args.range.end - 1) :
        isOpen(doc.data[i + 1]) /\ depthAt(i) = 0}

eachDiffers ==
    /\ args.wrap.unwrapEach # << >>
    /\ \E i \in topLevelStarts :
        differs(getData(doc, i, i + Len(args.wrap.unwrapEach)), args.wrap.unwrapEach)

\* C20: newFromWrap raises, and returns no transaction, when range.start <
\* unwrapOuter.length, when the type of one of the unwrapOuter.length items
\* before range.start differs from that of unwrapOuter, or when the types
\* at the start of a top-level element of the range differ from those of
\* unwrapEach; only types are compared, so items of the expected types with
\* other attributes raise none of the three errors.
WrapChecksTypes ==
    wrapCalled =>
        /\ args.range.start < Len(args.wrap.unwrapOuter)
            => raised = OuterTooLong /\ srcA = ""
        /\ outerDiffers => raised = OuterMismatch /\ srcA = ""
        /\ eachDiffers => raised # "" /\ srcA = ""
        /\ raised = OuterMismatch => outerDiffers
        /\ raised = EachMismatch => eachDiffers

WrapChecksTypesWitness ==
    /\ wrapCalled
    /\ args.wrap.unwrapOuter # << >>
    /\ args.range.start >= Len(args.wrap.unwrapOuter)
    /\ ~outerDiffers
    /\ preceding # args.wrap.unwrapOuter
    /\ srcA = "newFromWrap"

WrapEachMismatchWitness == wrapCalled /\ raised = EachMismatch

WrapOuterMismatchWitness == wrapCalled /\ raised = OuterMismatch

WrapOuterTooLongWitness == wrapCalled /\ raised = OuterTooLong

----------------------------------------------------------------------------
(* Properties of the operations newFromWrap emits *)

listExample ==
    /\ wrapCalled
    /\ doc = DocTwoParagraphs
    /\ args.range = [start |-> 0, end |-> 6]
    /\ args.wrap = [unwrapOuter |-> << >>, wrapOuter |-> <<Elem("list")>>,
                    unwrapEach |-> << >>, wrapEach |-> <<Elem("listItem")>>]

Inserting(insert) == [type |-> "replace", remove |-> << >>, insert |-> insert]

Retaining(length) == [type |-> "retain", length |-> length]

\* C21: the list example of newFromWrap, on [p, a, /p, p, b, /p] with
\* Range(0,6), yields five operations, each run of adjacent wrappers being
\* one replace: [list, listItem], retain 3, [/listItem, listItem], retain 3,
\* [/listItem, /list]; every remove is empty.
ListExampleCoalesced ==
    listExample =>
        /\ raised = ""
        /\ txA.operations =
            << Inserting(<<Elem("list"), Elem("listItem")>>),
               Retaining(3),
               Inserting(<<Elem("/listItem"), Elem("listItem")>>),
               Retaining(3),
               Inserting(<<Elem("/listItem"), Elem("/list")>>) >>

ListExampleCoalescedWitness == listExample /\ srcA = "newFromWrap"

\* the statement that every wrapper sequence has a replace of its own
ListExampleSeparate ==
    listExample =>
        txA.operations =
            << Inserting(<<Elem("list")>>),
               Inserting(<<Elem("listItem")>>),
               Retaining(3),
               Inserting(<<Elem("/listItem")>>),
               Inserting(<<Elem("listItem")>>),
               Retaining(3),
               Inserting(<<Elem("/listItem")>>),
               Inserting(<<Elem("/list")>>) >>

----------------------------------------------------------------------------
(* Properties of the spans newFromAnnotation emits *)

annotationCalled ==
    /\ mode = "single"
    /\ DOMAIN args = {"range", "method", "annotation"}
    /\ srcA = "newFromAnnotation"

\* the offsets between an annotate start and the stop that follows it
RECURSIVE spansFrom(_, _, _, _)
spansFrom(ops, i, cursor, since) ==
    IF i > Len(ops) THEN {}
    ELSE IF ops[i].type = "retain"
    THEN spansFrom(ops, i + 1, cursor + ops[i].length, since)
    ELSE IF ops[i].type = "annotate" /\ ops[i].bias = "start"
    THEN spansFrom(ops, i + 1, cursor, Some(cursor))
    ELSE IF ops[i].type = "annotate" /\ since # Undefined
    THEN (since[1]..(cursor - 1)) \cup spansFrom(ops, i + 1, cursor, Undefined)
    ELSE spansFrom(ops, i + 1, cursor, since)

spanned == spansFrom(txA.operations, 1, 0, Undefined)

inRange(i) == args.range.start <= i /\ i < args.range.end

isCharacter(i) == ~isElement(doc.data[i + 1])

\* what the method skips: for set a comparable annotation on the item, for
\* clear the absence of the very annotation
skipped(i) ==
    IF args.method = "set"
    THEN \E a \in doc.data[i + 1].ann : Comparable(a, args.annotation)
    ELSE args.annotation \notin doc.data[i + 1].ann

\* opening less closing markers of node types that ignore their children,
\* among the items of the range before offset i
ignoredDepth(i) ==
    Cardinality({j \in args.range.start..(i - 1) :
        isOpen(doc.data[j + 1]) /\ shouldIgnoreChildren(BaseType(doc.data[j + 1]))})
    - Cardinality({j \in args.range.start..(i - 1) :
        isClose(doc.data[j + 1]) /\ shouldIgnoreChildren(BaseType(doc.data[j + 1]))})

\* C22: in the transaction newFromAnnotation returns, a character of the
\* range at which the markers of ignoreChildren nodes met since the start
\* of the range balance lies inside a span exactly if the method does not
\* skip it; a character at which they do not balance, and every offset
\* outside the range, lies in no span.
SpansCoverUnskippedCharacters ==
    annotationCalled =>
        \A i \in 0..(getLength(doc) - 1) :
            /\ inRange(i) /\ isCharacter(i) /\ ignoredDepth(i) = 0
                => (i \in spanned <=> ~skipped(i))
            /\ inRange(i) /\ isCharacter(i) /\ ignoredDepth(i) # 0
                => i \notin spanned
            /\ ~inRange(i) => i \notin spanned

\* two runs wrapped separately, around a character the method skips
SpansCoverUnskippedCharactersWitness ==
    /\ annotationCalled
    /\ \E i \in spanned, j \in spanned :
        \E k \in (i + 1)..(j - 1) : isCharacter(k) /\ skipped(k) /\ k \notin spanned

\* a character the method would not skip, left out of every span
IgnoredCharacterWitness ==
    /\ annotationCalled
    /\ \E i \in 0..(getLength(doc) - 1) :
        inRange(i) /\ isCharacter(i) /\ ~skipped(i) /\ i \notin spanned

\* the statement for every character of the range
SpansCoverEveryUnskippedCharacter ==
    annotationCalled =>
        \A i \in 0..(getLength(doc) - 1) :
            /\ inRange(i) /\ isCharacter(i) => (i \in spanned <=> ~skipped(i))
            /\ ~inRange(i) => i \notin spanned

----------------------------------------------------------------------------
(* Properties of the attribute operations *)

lastOpOf(b) == b.ops[Len(b.ops)]

appendsAttribute(from, to) ==
    /\ Len(btx'.ops) = Len(btx.ops) + 1
    /\ lastOpOf(btx') = [type |-> "attribute", key |-> "level", from |-> from, to |-> to]
    /\ SubSeq(btx'.ops, 1, Len(btx.ops)) = btx.ops

\* C23: pushAttributeChanges appends an attribute operation for a key only
\* when the old and the new value differ and leaves the list unchanged when
\* they are equal; pushReplaceElementAttribute appends the operation for
\* every pair of values, equal ones included.
AttributeChangesFiltered ==
    [][\A from \in Levels, to \in Levels :
        /\ PushAttributeChangesWith(Some(to), from)
            => IF from = to THEN btx'.ops = btx.ops ELSE appendsAttribute(from, to)
        /\ PushReplaceElementAttributeWith(from, to) => appendsAttribute(from, to)]_vars

\* an operation that changes an attribute to the value it has
AttributeChangesFilteredWitness ==
    /\ mode = "builder"
    /\ btx.ops # << >>
    /\ lastOpOf(btx).type = "attribute"
    /\ lastOpOf(btx).from = lastOpOf(btx).to

\* the statement that neither call appends for equal values
AttributeOpsOnlyWhenDifferent ==
    [][\A l \in Levels :
        /\ PushAttributeChangesWith(Some(l), l) => btx'.ops = btx.ops
        /\ PushReplaceElementAttributeWith(l, l) => btx'.ops = btx.ops]_vars

----------------------------------------------------------------------------
(* Properties of pushReplace *)

lastIsReplace == btx.ops # << >> /\ lastOpOf(btx).type = "replace"

\* where the next builder call starts in the source document
position == sourceLength(btx.ops)

\* a call without insertMetadata, onto a replace without insertedDataOffset,
\* the regions removed by the two carrying no metadata
plainOntoPlain(r) ==
    /\ lastIsReplace
    /\ r.insertMetadata = Undefined
    /\ ~hasField(lastOpOf(btx), "insertedDataOffset")
    /\ AllUndefined(getMetadata(doc, position - Len(lastOpOf(btx).remove),
                                position + r.removeLength))

coalesced(r) ==
    /\ btx'.err = ""
    /\ Len(btx'.ops) = Len(btx.ops)
    /\ SubSeq(btx'.ops, 1, Len(btx.ops) - 1) = SubSeq(btx.ops, 1, Len(btx.ops) - 1)
    /\ lastOpOf(btx').type = "replace"
    /\ lastOpOf(btx').remove
        = lastOpOf(btx).remove \o getData(doc, position, position + r.removeLength)
    /\ lastOpOf(btx').insert = lastOpOf(btx).insert \o r.insert

\* two replaces in a row, the first without insertedDataOffset, the second
\* without metadata
plainAfterReplace(ops) ==
    \E i \in 1..(Len(ops) - 1) :
        /\ ops[i].type = "replace"
        /\ ~hasField(ops[i], "insertedDataOffset")
        /\ ops[i + 1].type = "replace"
        /\ ~hasField(ops[i + 1], "insertMetadata")

endsWith(s, tail) ==
    Len(s) >= Len(tail) /\ SubSeq(s, Len(s) - Len(tail) + 1, Len(s)) = tail

\* the last replace is itself directly after a replace
replaceBeforeLast ==
    Len(btx.ops) >= 2 /\ btx.ops[Len(btx.ops) - 1].type = "replace"

\* the call and the last replace end up in one replace, which the replace
\* before the last one may have been merged into as well
coalescedInto(r) ==
    /\ btx'.err = ""
    /\ Len(btx'.ops) <= Len(btx.ops)
    /\ lastOpOf(btx').type = "replace"
    /\ endsWith(lastOpOf(btx').remove,
                lastOpOf(btx).remove \o getData(doc, position, position + r.removeLength))
    /\ endsWith(lastOpOf(btx').insert, lastOpOf(btx).insert \o r.insert)

collapsing(r) ==
    /\ PushReplaceWith(r)
    /\ r.insertMetadata = Undefined
    /\ ~AllUndefined(getMetadata(doc, position, position + r.removeLength))
    /\ btx'.err = ""

\* the metadata of the source items an operation removes, the operation
\* ending where the call ends
removedCells(op, r) ==
    getMetadata(doc, position + r.removeLength - Len(op.remove),
                position + r.removeLength)

mergedBeforeInsert(op, r) ==
    /\ op.type = "replace"
    /\ hasField(op, "insertMetadata")
    /\ Len(op.insertMetadata) = Len(op.insert)
    /\ op.insertMetadata[1] = ConcatCells(removedCells(op, r))
    /\ \A i \in 2..Len(op.insertMetadata) : op.insertMetadata[i] = << >>

mergedAfterRemoval(ops, r) ==
    /\ Len(ops) >= 2
    /\ ops[Len(ops) - 1].type = "replace"
    /\ hasField(ops[Len(ops) - 1], "insertMetadata")
    /\ ops[Len(ops) - 1].insertMetadata = << >>
    /\ ops[Len(ops)] = [type |-> "replaceMetadata", remove |-> << >>,
                        insert |-> ConcatCells(removedCells(ops[Len(ops) - 1], r))]

\* C25: a pushReplace without insertMetadata that removes metadata and
\* returns leaves, for a non-empty insert, a replace whose insertMetadata is
\* as long as its insert, the first cell holding all removed metadata and
\* the others empty; for an empty insert, a replace with empty
\* insertMetadata directly followed by a replaceMetadata that removes
\* nothing and inserts the merged cell.
RemovedMetadataCollapsed ==
    [][\A r \in ReplaceInputs :
        collapsing(r) =>
            IF r.insert # << >>
            THEN mergedBeforeInsert(lastOpOf(btx'), r)
            ELSE mergedAfterRemoval(btx'.ops, r)]_vars

RemovedMetadataCollapsedWitness ==
    /\ mode = "builder"
    /\ btx.ops # << >>
    /\ lastOpOf(btx).type = "replace"
    /\ hasField(lastOpOf(btx), "insertMetadata")
    /\ lastOpOf(btx).insertMetadata = <<<<"m1">>>>
    /\ lastOpOf(btx).insert = <<Char("x")>>

RemovedMetadataAfterRemovalWitness ==
    /\ mode = "builder"
    /\ mergedAfterRemoval(btx.ops, [removeLength |-> 0])
    /\ Len(lastOpOf(btx).insert) > 0

\* the metadata elements the first i operations remove from the document
RECURSIVE removedElements(_, _)
removedElements(ops, i) ==
    IF i = 0 THEN << >>
    ELSE removedElements(ops, i - 1)
         \o (IF ops[i].type = "replace"
             THEN ConcatCells(getMetadata(doc, consumed(ops, i - 1), consumed(ops, i)))
             ELSE IF ops[i].type = "replaceMetadata" THEN ops[i].remove
             ELSE << >>)

\* the metadata elements the first i operations insert
RECURSIVE insertedElements(_, _)
insertedElements(ops, i) ==
    IF i = 0 THEN << >>
    ELSE insertedElements(ops, i - 1)
         \o (IF ops[i].type = "replace" /\ hasField(ops[i], "insertMetadata")
             THEN ConcatCells(ops[i].insertMetadata)
             ELSE IF ops[i].type = "replaceMetadata" THEN ops[i].insert
             ELSE << >>)

occurrences(e, elements) == Cardinality({i \in 1..Len(elements) : elements[i] = e})

\* every element removed is inserted exactly once, no other is inserted
keepsMetadata(b) ==
    \A e \in {"m1", "m2", "m3", "n1"} :
        occurrences(e, insertedElements(b.ops, Len(b.ops)))
            = occurrences(e, removedElements(b.ops, Len(b.ops)))

\* C26: a pushReplace without insertMetadata that returns, made on a list
\* that inserts every metadata element it removes exactly once, leaves a
\* list that does so too.
CollapsingKeepsMetadata ==
    [][\A r \in ReplaceInputs :
        /\ PushReplaceWith(r)
        /\ r.insertMetadata = Undefined
        /\ btx'.err = ""
        /\ keepsMetadata(btx)
        => keepsMetadata(btx')]_vars

----------------------------------------------------------------------------
(* Properties of addSafeRemoveOps *)

removalCalled ==
    /\ mode = "single"
    /\ DOMAIN args = {"range", "removeMetadata"}
    /\ srcA = "newFromRemoval"

undeletableMarker(item) == isElement(item) /\ ~isNodeDeletable(BaseType(item))

removesUndeletable(op) ==
    /\ op.type = "replace"
    /\ \E i \in 1..Len(op.remove) : undeletableMarker(op.remove[i])

\* C27: no replace operation that addSafeRemoveOps emits for a removal
\* holds in its remove an opening or closing marker of a node type that
\* cannot be deleted.
SafeRemoveSparesUndeletable ==
    removalCalled =>
        \A i \in 1..Len(txA.operations) : ~removesUndeletable(txA.operations[i])

annotateOps(ops) == {i \in 1..Len(ops) : ops[i].type = "annotate"}

\* how many of the first i operations are annotate operations
annotateRank(ops, i) == Cardinality({j \in annotateOps(ops) : j <= i})

\* annotate starts less annotate stops among the first i operations, the
\* count of open spans that rebasing keeps
openSpans(ops, i) ==
    Cardinality({j \in annotateOps(ops) : j <= i /\ ops[j].bias = "start"})
    - Cardinality({j \in annotateOps(ops) : j <= i /\ ops[j].bias = "stop"})

\* C28: in a transaction newFromAnnotation returns the annotate operations
\* alternate start, stop, .., start, stop, carry the requested method and
\* the store index of the annotation, every start is followed by a retain
\* of at least one item and then by its stop, and the count of open spans
\* is 0 or 1 throughout and 0 at the end.
AnnotateOpsArePaired ==
    annotationCalled =>
        /\ \A i \in annotateOps(txA.operations) :
            /\ txA.operations[i].bias =
                (IF annotateRank(txA.operations, i) % 2 = 1 THEN "start" ELSE "stop")
            /\ txA.operations[i].method = args.method
            /\ txA.operations[i].index = storeIndex(args.annotation)
            /\ txA.operations[i].bias = "start" =>
                /\ i + 2 <= Len(txA.operations)
                /\ txA.operations[i + 1].type = "retain"
                /\ txA.operations[i + 1].length >= 1
                /\ txA.operations[i + 2].type = "annotate"
        /\ Cardinality(annotateOps(txA.operations)) % 2 = 0
        /\ \A i \in 0..Len(txA.operations) : openSpans(txA.operations, i) \in {0, 1}
        /\ openSpans(txA.operations, Len(txA.operations)) = 0

\* two spans in one transaction
AnnotateOpsArePairedWitness ==
    /\ annotationCalled
    /\ Cardinality(annotateOps(txA.operations)) = 4

----------------------------------------------------------------------------
(* Properties of the data that replace operations remove *)

\* the source items between the offsets the operations before op i and the
\* operations up to op i have passed over
sourceSlice(ops, i) == getData(doc, consumed(ops, i - 1), consumed(ops, i))

removesSource(ops) ==
    \A i \in 1..Len(ops) :
        ops[i].type = "replace" =>
            /\ consumed(ops, i) <= getLength(doc)
            /\ ops[i].remove = sourceSlice(ops, i)

----------------------------------------------------------------------------
(* Properties of the end state of newFromWrap *)

wrapped == wrapCalled /\ srcA = "newFromWrap"

\* the unwrapOuter.length items from range.end on
following == getData(doc, args.range.end, args.range.end + Len(args.wrap.unwrapOuter))

\* the items from range.end on close, innermost first, the items before
\* range.start
closesOuter ==
    /\ args.range.end + Len(args.wrap.unwrapOuter) <= getLength(doc)
    /\ \A k \in 1..Len(args.wrap.unwrapOuter) :
        following[k].type
            = Closing(preceding[Len(args.wrap.unwrapOuter) - k + 1].type)

rangeBalanced == Balanced(getData(doc, args.range.start, args.range.end))

\* the replace operation that begins at a source offset, if there is one
replaceFrom(offset) ==
    {i \in 1..Len(txA.operations) :
        /\ txA.operations[i].type = "replace"
        /\ consumed(txA.operations, i - 1) = offset}

\* the operations end with the replace of the items at range.end by the
\* closings of wrapOuter, innermost first
closesWithWrapOuter ==
    \E i \in 1..Len(txA.operations) :
        /\ txA.operations[i].type = "replace"
        /\ consumed(txA.operations, i) = args.range.end + Len(args.wrap.unwrapOuter)
        /\ Len(txA.operations[i].remove) >= Len(args.wrap.unwrapOuter)
        /\ Len(txA.operations[i].insert) >= Len(args.wrap.wrapOuter)
        /\ SubSeq(txA.operations[i].insert,
                  Len(txA.operations[i].insert) - Len(args.wrap.wrapOuter) + 1,
                  Len(txA.operations[i].insert))
            = closingArray(args.wrap.wrapOuter)

\* C30: on a balanced document, a transaction newFromWrap returns for a
\* balanced range that is followed by the closing markers, innermost first,
\* of the unwrapOuter items before it ends in a balanced document, and the
\* items removed at range.end are replaced by the closings of wrapOuter in
\* reverse order.
WrapKeepsBalance ==
    wrapped /\ Balanced(doc.data) /\ rangeBalanced /\ closesOuter =>
        /\ afterA.err = ""
        /\ Balanced(afterA.data)
        /\ (/\ ~EachOverLooseItems
            /\ args.wrap.unwrapOuter # << >> \/ args.wrap.wrapOuter # << >>)
            => closesWithWrapOuter

\* a heading unwrapped and a paragraph put around its content
WrapKeepsBalanceWitness ==
    /\ wrapped
    /\ closesOuter
    /\ rangeBalanced
    /\ args.wrap.unwrapOuter # << >>
    /\ args.wrap.wrapOuter # << >>
    /\ Balanced(afterA.data)
    /\ afterA.data # doc.data

\* the statement for every transaction newFromWrap returns
WrapAlwaysKeepsBalance ==
    wrapped /\ Balanced(doc.data) => afterA.err = "" /\ Balanced(afterA.data)

\* ------------------------------------------------------------------
\* translateOffset at the boundaries of a replace operation
\* ------------------------------------------------------------------

includingInsertion == out.op = "translateOffset" /\ ~truthy(out.excludeInsertion)

\* the replace operations of tx that begin at the offset and insert something
startsInserting(tx, offset) ==
    {r \in replaced(tx) : r.start = offset /\ r.inserted > 0}

\* an earlier replace operation of tx ends at the start of r
endsBefore(tx, r) ==
    \E q \in replaced(tx) :
        q # r /\ q.end = r.start /\ q.start <= r.start /\ q.at <= r.at

\* C32: for an offset exactly at the start of a replace operation that
\* inserts at least one item and that no earlier replace ends at,
\* translateOffset(offset, false) returns the position immediately before
\* the inserted content when the operation also removes items, and the
\* position immediately after the inserted content when it is a pure
\* insertion.
StartOfReplaceTranslated ==
    includingInsertion =>
        \A r \in startsInserting(txA, out.offset) :
            ~endsBefore(txA, r) =>
                out.result = IF r.end > r.start THEN r.at ELSE r.at + r.inserted

StartOfReplaceTranslatedWitness ==
    /\ includingInsertion
    /\ \E r \in startsInserting(txA, out.offset) :
        r.end > r.start /\ ~endsBefore(txA, r) /\ out.result = r.at /\ r.at > 0

StartOfPureInsertionWitness ==
    /\ includingInsertion
    /\ \E r \in startsInserting(txA, out.offset) :
        r.end = r.start /\ out.result = r.at + r.inserted

\* C32 as stated: the position immediately before the inserted content, for
\* replacements that remove items and for pure insertions alike
StartOfReplaceTranslatesBefore ==
    includingInsertion =>
        \A r \in startsInserting(txA, out.offset) : out.result = r.at

\* the replace operations of tx whose removed region ends at the offset
endingAt(tx, offset) == {r \in replaced(tx) : r.end = offset}

\* an earlier replace operation of tx ends where r ends
endsEarlier(tx, r) ==
    \E q \in replaced(tx) :
        q # r /\ q.end = r.end /\ q.start <= r.start /\ q.at <= r.at

offsetTranslated == out.op = "translateOffset"

growing(r) == r.inserted > r.end - r.start

EndOfGrowingReplaceWitness ==
    /\ offsetTranslated
    /\ truthy(out.excludeInsertion)
    /\ \E r \in endingAt(txA, out.offset) :
        r.start < r.end /\ growing(r) /\ out.result = r.at + (r.end - r.start)

EndOfRemovalAfterWitness ==
    /\ offsetTranslated
    /\ ~truthy(out.excludeInsertion)
    /\ \E r \in endingAt(txA, out.offset) :
        r.start < r.end /\ r.inserted > 0 /\ out.result = r.at + r.inserted

RECURSIVE lengthDifference(_, _)
lengthDifference(ops, i) ==
    \* items inserted minus items removed by the first i operations
    IF i = 0 THEN 0
    ELSE lengthDifference(ops, i - 1)
         + (IF ops[i].type = "replace"
            THEN Len(ops[i].insert) - Len(ops[i].remove) ELSE 0)

\* the length of the document after the operations
endLength(d, tx) == getLength(d) + lengthDifference(tx.operations, Len(tx.operations))

\* C34: for each fixed value of excludeInsertion, translateOffset is
\* monotone non-decreasing in its offset argument on the offsets of the
\* source document, and its result lies between 0 and the length of the
\* document after the transaction.
TranslateOffsetMonotone ==
    offsetTranslated =>
        /\ 0 <= out.result /\ out.result <= endLength(doc, txA)
        /\ \A o \in Offsets(doc) :
            out.offset <= o => out.result <= translateOffset(txA, o, out.excludeInsertion)

\* the same without the case that fails: excludeInsertion true
TranslateOffsetMonotoneIncluding ==
    offsetTranslated /\ ~truthy(out.excludeInsertion) =>
        /\ 0 <= out.result /\ out.result <= endLength(doc, txA)
        /\ \A o \in Offsets(doc) :
            out.offset <= o => out.result <= translateOffset(txA, o, out.excludeInsertion)

excludingTranslated == out.op = "translateRange" /\ truthy(out.excludeInsertion)

\* the inserted items of r lie outside the range
outside(range, r) == r.at + r.inserted <= range.start \/ range.end <= r.at

boundaryInsertions ==
    insertionsAt(txA, out.range.start) \cup insertionsAt(txA, out.range.end)

\* C35: with excludeInsertion true, translateRange gives for every forward
\* range a forward range that contains no item inserted exactly at the
\* start or exactly at the end of the range, and a range collapsed at an
\* insertion point stays collapsed.
TranslateRangeExcludesInsertions ==
    excludingTranslated /\ out.range.from <= out.range.to =>
        /\ out.result.from <= out.result.to
        /\ \A r \in boundaryInsertions : outside(out.result, r)
        /\ out.range.from = out.range.to /\ boundaryInsertions # {} =>
            out.result.from = out.result.to

\* the same for the ranges that are not collapsed
OpenRangeExcludesInsertions ==
    excludingTranslated /\ out.range.from < out.range.to =>
        \A r \in boundaryInsertions :
            out.result.from <= out.result.to /\ outside(out.result, r)

\* ------------------------------------------------------------------
\* getModifiedRange of a removal
\* ------------------------------------------------------------------

modifyingOps(tx) == {i \in 1..Len(tx.operations) : modifies(tx.operations[i])}

\* the only operation of tx that is not a retain is a replace that inserts
\* nothing and removes items that lie before the internal list of d
removalOnly(tx, d) ==
    /\ Cardinality(modifyingOps(tx)) = 1
    /\ \A i \in modifyingOps(tx) :
        /\ tx.operations[i].type = "replace"
        /\ tx.operations[i].insert = << >>
        /\ tx.operations[i].remove # << >>
        /\ beginsAt(tx, i) + Len(tx.operations[i].remove) <= internalListOuterStart(d)

collapsedAtRemoval(tx, result) ==
    \A i \in modifyingOps(tx) :
        result = Some(Range(beginsAt(tx, i), beginsAt(tx, i)))

modifiedRangeOfReversed == out.op = "getModifiedRangeOfReversed"

\* C36: getModifiedRange returns a zero-length range at the removal point
\* for every transaction whose only non-retain operation is a removal
\* before the internal list, the reversal of an insertion built by
\* newFromInsertion included.
ModifiedRangeOfRemovalCollapsed ==
    /\ modifiedRange /\ removalOnly(txA, doc) => collapsedAtRemoval(txA, out.result)
    /\ modifiedRangeOfReversed /\ removalOnly(rev.once[1], reversedFrom(doc, txA)) =>
            collapsedAtRemoval(rev.once[1], out.result)

\* the same for the transactions as constructed, their reversals left out
ModifiedRangeOfConstructedRemovalCollapsed ==
    modifiedRange /\ removalOnly(txA, doc) => collapsedAtRemoval(txA, out.result)

ModifiedRangeOfConstructedRemovalWitness ==
    modifiedRange /\ removalOnly(txA, doc) /\ srcA = "newFromRemoval"

\* ------------------------------------------------------------------
\* Rebasing works on clones
\* ------------------------------------------------------------------

\* the transactions a rebase returned
returnedBy(r) == {t[1] : t \in {u \in {r.a, r.b} : u # Undefined}}

rebaseStep == rebased' # rebased \/ onto' # onto

RebaseConflictKeepsInputsWitness ==
    /\ rebased.status = "conflict"
    /\ hasBeenApplied(txB)
    /\ txB.operations # << >>

\* C38: rebaseTransactions returns normally, a pair of transactions or
\* [null, null], for every pair of transactions the constructors return for
\* one document, the empty transactions of newFromMetadataInsertion and
\* newFromMetadataRemoval included; it never raises 'Negative retain length'.
RebaseNeverRaises ==
    /\ rebased.status \in {"none", "ok", "conflict"}
    /\ rebased.err # "Negative retain length"
    /\ onto.result.err # "Negative retain length"

\* the same for the pairs of transactions that both have operations
RebaseOfNonEmptyNeverRaises ==
    txA.operations # << >> /\ txB.operations # << >> =>
        /\ rebased.status \in {"none", "ok", "conflict"}
        /\ onto.result.status \in {"none", "ok", "conflict"}

\* ------------------------------------------------------------------
\* A rebased transaction fits the document the other transaction leaves
\* ------------------------------------------------------------------

\* what the replace operations of tx remove is what data holds there
removesWhatIsThere(tx, data) ==
    \A i \in 1..Len(tx.operations) :
        tx.operations[i].type = "replace" =>
            /\ beginsAt(tx, i) + Len(tx.operations[i].remove) <= Len(data)
            /\ tx.operations[i].remove =
                   Slice(data, beginsAt(tx, i),
                         beginsAt(tx, i) + Len(tx.operations[i].remove))

\* the retains and removals of tx add up to the length of data
fits(tx, data) ==
    /\ sourceLength(tx.operations) = Len(data)
    /\ removesWhatIsThere(tx, data)

consumesSource(tx) == sourceLength(tx.operations) = getLength(doc)

rebasedPair == rebased.status = "ok"

\* C39: when rebaseTransactions( A, B ) returns [ A', B' ] for two
\* transactions that each pass over the whole of the start document, the
\* retain and remove lengths of B' add up to the length of the document
\* after A (the start length plus A's length difference), those of A' to
\* the length of the document after B, and every replace.remove of B'
\* (of A') equals the slice of the document after A (after B) at the
\* offset of the operation.
RebasedFitsOtherEndState ==
    rebasedPair /\ consumesSource(txA) /\ consumesSource(txB) =>
        /\ Len(afterA.data) = getLength(doc) + infoA.diff
        /\ Len(afterB.data) = getLength(doc) + infoB.diff
        /\ fits(rebased.b[1], afterA.data)
        /\ fits(rebased.a[1], afterB.data)

RebasedFitsOtherEndStateWitness ==
    /\ rebasedPair
    /\ consumesSource(txA) /\ consumesSource(txB)
    /\ infoA.diff < 0 /\ infoB.diff > 0
    /\ \E i \in 1..Len(rebased.a[1].operations) :
        /\ rebased.a[1].operations[i].type = "replace"
        /\ rebased.a[1].operations[i].remove # << >>
        /\ beginsAt(rebased.a[1], i) # beginsAt(txA, i)

\* C39 as stated: for every pair of constructed transactions
RebasedAlwaysFitsOtherEndState ==
    rebasedPair =>
        /\ fits(rebased.b[1], afterA.data)
        /\ fits(rebased.a[1], afterB.data)

----------------------------------------------------------------------------
(* Properties of newFromDocumentInsertion *)

documentInsertionCalled ==
    /\ mode = "single"
    /\ DOMAIN args = {"offset", "newDoc", "newDocRange"}
    /\ srcA = "newFromDocumentInsertion"

replaces(tx) == {i \in 1..Len(tx.operations) : tx.operations[i].type = "replace"}

\* the range R of the internal list node of the document
listRange == [start |-> getListNode(doc).start, end |-> getListNode(doc).end]

givenData == insertedFromDocument(args.newDoc, args.newDocRange).data

fixedUp == fixupInsertion(doc, givenData, args.offset)

newList == mergedList(doc, args.newDoc).data

\* operation i replaces the whole of R
coversList(i) ==
    /\ beginsAt(txA, i) = listRange.start
    /\ txA.operations[i].remove = getData(doc, listRange.start, listRange.end)

\* operation i is the replace of the inserted node
insertsNode(i) ==
    /\ beginsAt(txA, i) = fixedUp.offset
    /\ Len(txA.operations[i].remove) = fixedUp.remove
    /\ txA.operations[i].insert = fixedUp.data

nodeThenListShape ==
    \E i, j \in replaces(txA) :
        /\ i < j
        /\ replaces(txA) = {i, j}
        /\ insertsNode(i)
        /\ coversList(j)
        /\ txA.operations[j].insert = newList

listThenNodeShape ==
    \E i, j \in replaces(txA) :
        /\ i < j
        /\ replaces(txA) = {i, j}
        /\ coversList(i)
        /\ txA.operations[i].insert = newList
        /\ insertsNode(j)

\* the contents of the items of a list, in order
itemContents(data) ==
    [k \in 0..(Cardinality(itemNodes([data |-> data])) - 1) |->
        Slice(data, getItemNode([data |-> data], k)[1].start,
              getItemNode([data |-> data], k)[1].end)]

\* the index of the item of the document that the offset lies in, from
\* its opening up to its closing
slotIndex == Cardinality({n \in itemNodes(doc) : n.outerEnd <= args.offset})

\* operation i inserts the new list with the given data as the contents of
\* the item the offset lies in
splicedIntoSlot(i) ==
    itemContents(txA.operations[i].insert) =
        [itemContents(newList) EXCEPT ![slotIndex] = givenData]

listOnlyShape ==
    \E i \in replaces(txA) :
        /\ replaces(txA) = {i}
        /\ coversList(i)
        /\ splicedIntoSlot(i)

\* C31: newFromDocumentInsertion chooses the shape of its transaction by
\* the offset and the range R of the internal list node. An offset before
\* R gives the replace of the node followed by a replace of the whole of
\* R by the new list; an offset after R gives the replace of the list
\* followed by that of the node; an offset strictly inside R gives exactly
\* one replace, of the whole of R, with the inserted data as the contents
\* of the internal item the offset lies in. The offset R.start is handled
\* as before R and the offset R.end as after it: the data is inserted in
\* front of the first item or behind the last one, next to the new list.
DocumentInsertionShape ==
    documentInsertionCalled =>
        /\ args.offset < listRange.start => nodeThenListShape
        /\ args.offset > listRange.end => listThenNodeShape
        /\ listRange.start < args.offset /\ args.offset < listRange.end => listOnlyShape
        /\ args.offset = listRange.start => insertedBy(txA) = fixedUp.data \o newList
        /\ args.offset = listRange.end => insertedBy(txA) = newList \o fixedUp.data

DocumentInsertionShapeWitness ==
    /\ documentInsertionCalled
    /\ listRange.start < args.offset /\ args.offset < listRange.end
    /\ slotIndex = 1
    /\ args.newDoc.origDoc
    /\ listOnlyShape

DocumentInsertionBeforeWitness ==
    documentInsertionCalled /\ args.offset < listRange.start /\ nodeThenListShape

DocumentInsertionAfterWitness ==
    documentInsertionCalled /\ args.offset > listRange.end /\ listThenNodeShape

\* C31 as stated: the offsets R.start and R.end are inside R
DocumentInsertionShapeInclusive ==
    documentInsertionCalled =>
        /\ args.offset < listRange.start => nodeThenListShape
        /\ args.offset > listRange.end => listThenNodeShape
        /\ listRange.start <= args.offset /\ args.offset <= listRange.end => listOnlyShape

====
